---------------------------- MODULE Spec2Model ----------------------------
(***************************************************************************)
(* A model of the PPTX theme-colour converter of pptxbot                   *)
(* (src/webex_convert.py): the slide rewriter convert, the theme reader    *)
(* read_color_map and the driver convert_pptx_to_rgb.                      *)
(*                                                                         *)
(* An XML part is modelled by what lxml's parser makes of it: whether it   *)
(* is well-formed, what the root element's nsmap binds the prefix a to,    *)
(* and the elements below the root in document order, each with its        *)
(* namespace, local name, val attribute and depth.  The bytes of a part    *)
(* are the tree plus the form the bytes are written in: "src" for the      *)
(* bytes of some other producer, "lxml" for what etree.tostring followed   *)
(* by the CR+LF replacement of convert writes.                             *)
(***************************************************************************)
EXTENDS Integers, Sequences, FiniteSets, TLC

VARIABLES
    content,           \* SpecConvert: the bytes handed to convert
    results,           \* SpecConvert: what the successive calls of convert returned
    color_map,         \* the colour map: convert's argument, the driver's local
    theme_file,        \* SpecTheme: the bytes of the theme part read
    theme,             \* SpecTheme: what read_color_map returned, <<>> before
    color_specs,       \* SpecTheme: what theme_color_specs returned, <<>> before
    input_file,        \* Spec: the package at the input path
    output_file,       \* Spec: the package at the output path, None before it is created
    pc,                \* Spec: where convert_pptx_to_rgb is
    rel,               \* Spec: the local rel of convert_pptx_to_rgb
    new_file_data,     \* Spec: the local new_file_data of convert_pptx_to_rgb
    error,             \* Spec: the exception convert_pptx_to_rgb raised, None if none
    message,           \* SpecBot: the message process_message_sync is called with
    bpc,               \* SpecBot: where process_message_sync is
    file_idx,          \* SpecBot: the index in message.files of the loop of line 101
    tries,             \* SpecBot: the requests get_file has issued for the attachment
    response,          \* SpecBot: what get_file yielded for the attachment
    sent,              \* SpecBot: the calls of api.messages.create, in order
    calls,             \* SpecBot: the attachments convert_pptx_to_rgb was called for
    yields,            \* SpecBot: how often get_file yielded, per attachment
    transport,         \* SpecTransport: "socket" (BotSocket) or "webhook" (BotWebhook)
    wire,              \* SpecTransport: the inbound messages not yet accepted
    tasks,             \* SpecTransport: the accepted messages, each with its position
    loop,              \* SpecTransport: the task that runs on the event loop, None if none
    hooks,             \* SpecHooks: the webhooks registered, as api.webhook.list gives them
    workers,           \* SpecHooks: the workers in setup_hooks, each with its locals
    rels_tree,         \* SpecRels: the relationships part handed to a parser
    rels               \* SpecRels: what the parsers returned, <<>> before

convertVars == <<content, results>>
themeVars == <<theme_file, theme, color_specs>>
driverVars == <<input_file, output_file, pc, rel, new_file_data, error>>
botVars == <<message, bpc, file_idx, tries, response, sent, calls, yields>>
transportVars == <<transport, wire, tasks, loop>>
hookVars == <<hooks, workers>>
relsVars == <<rels_tree, rels>>
serviceVars == <<botVars, transportVars, hookVars>>
vars == <<content, results, color_map, theme_file, theme, input_file,
          output_file, pc, rel, new_file_data, error, message, bpc, file_idx,
          tries, response, sent, calls, yields, transport, wire, tasks, loop,
          hooks, workers, color_specs, rels_tree, rels>>

\* the value of a variable of another specification
Unused == "unused"
ConvertUnused == content = Unused /\ results = Unused
ThemeUnused == theme_file = Unused /\ theme = Unused /\ color_specs = Unused
DriverUnused ==
    /\ input_file = Unused /\ output_file = Unused /\ pc = Unused
    /\ rel = Unused /\ new_file_data = Unused /\ error = Unused
BotUnused ==
    /\ message = Unused /\ bpc = Unused /\ file_idx = Unused /\ tries = Unused
    /\ response = Unused /\ sent = Unused /\ calls = Unused /\ yields = Unused
TransportUnused ==
    transport = Unused /\ wire = Unused /\ tasks = Unused /\ loop = Unused
HookUnused == hooks = Unused /\ workers = Unused
RelsUnused == rels_tree = Unused /\ rels = Unused
ServiceUnused == BotUnused /\ TransportUnused /\ HookUnused

(***************************************************************************)
(* Bounds of the model.                                                    *)
(***************************************************************************)
\* elements below the root of a slide handed to convert
MaxNodes == 3
\* scheme colour references of a slide of references only
MaxRefs == 2
\* slots of a theme that differ from the plain 12-slot colour scheme
MaxOddSlots == 1
\* parts of a package
MaxParts == 3
\* slides of a deck
MaxSlides == 2
\* attachments of a message
MaxFiles == 2
\* inbound messages of a transport
MaxMessages == 3
\* relationships of a relationships part, besides the required ones
MaxRels == 3
MaxChars == 3
\* workers that run setup_hooks
MaxWorkers == 2
\* webhooks registered before the workers start
MaxOldHooks == 2

(***************************************************************************)
(* Values.                                                                 *)
(***************************************************************************)
\* Python's None: a missing attribute, a missing dict entry
None == "None"


\* the namespaces of the model: DrawingML and any other one
DrawingNs == "dml"
OtherNs == "other"
Namespaces == {DrawingNs, OtherNs}

\* src/webex_convert.py:71-76
PRE_MAP == [bg1 |-> "lt1", tx1 |-> "dk1", bg2 |-> "lt2", tx2 |-> "dk2"]

\* the k-th element of a set of positions, in their order
Nth(set, k) == CHOOSE i \in set : Cardinality({j \in set : j <= i}) = k

\* dict.get(key, default)
DictGet(d, k, default) == IF k \in DOMAIN d THEN d[k] ELSE default

(***************************************************************************)
(* Trees.  nodes[i].depth >= 1 is the depth of element i below the root    *)
(* (depth 0); the sequence is in document order.                           *)
(***************************************************************************)
\* the parent of element i: the nearest earlier element one level up, 0 = root
Parent(nodes, i) ==
    LET ups == {j \in 1..(i - 1) : nodes[j].depth = nodes[i].depth - 1}
    IN  IF nodes[i].depth = 1 \/ ups = {} THEN 0
        ELSE CHOOSE j \in ups : \A k \in ups : k <= j

\* the last index of the subtree of element i
SubtreeEnd(nodes, i) ==
    LET later == {j \in (i + 1)..Len(nodes) : nodes[j].depth <= nodes[i].depth}
    IN  IF later = {} THEN Len(nodes)
        ELSE (CHOOSE j \in later : \A k \in later : j <= k) - 1

\* the sequence with the elements `extra` put in after position p
InsertAfter(nodes, p, extra) ==
    SubSeq(nodes, 1, p) \o extra \o SubSeq(nodes, p + 1, Len(nodes))

\* root.xpath('//a:<tag>', namespaces=nsmap): every element of that local
\* name in the namespace the root binds the prefix a to
XPathAll(tree, tag) ==
    {i \in 1..Len(tree.nodes) :
        tree.nodes[i].ns = tree.rootA /\ tree.nodes[i].tag = tag}

\* el.xpath('a:<tag>', namespaces=nsmap): the children of element i
XPathChild(tree, i, tag) ==
    {j \in XPathAll(tree, tag) : Parent(tree.nodes, j) = i}

\* el.xpath('../a:<tag>', namespaces=nsmap): the children of i's parent
XPathSibling(tree, i, tag) ==
    {j \in XPathAll(tree, tag) :
        Parent(tree.nodes, j) = Parent(tree.nodes, i)}

(***************************************************************************)
(* Parsing and serializing.                                                *)
(***************************************************************************)
\* The bytes of a part outside its element markup are kept as they stand:
\* `head` is what comes before the root element, `text` the character data
\* inside it.  A byte is a carriage return, a line feed, a character
\* reference to one of the two, the XML declaration (one token) or any
\* other byte.
CR == "CR"
LF == "LF"
CRRef == "&#13;"
LFRef == "&#10;"
Other == "x"
XmlDecl == "<?xml version='1.0' encoding='UTF-8' standalone='yes'?>"

\* the parser's end-of-line handling: CR LF and a lone CR are read as LF
RECURSIVE EndOfLine(_)
EndOfLine(bytes) ==
    IF bytes = <<>> THEN <<>>
    ELSE IF Head(bytes) # CR THEN <<Head(bytes)>> \o EndOfLine(Tail(bytes))
    ELSE IF Len(bytes) >= 2 /\ bytes[2] = LF
         THEN <<LF>> \o EndOfLine(Tail(Tail(bytes)))
         ELSE <<LF>> \o EndOfLine(Tail(bytes))

\* the character a byte of character data stands for
Deref(b) == IF b = CRRef THEN CR ELSE IF b = LFRef THEN LF ELSE b

\* the characters of the text nodes, from the bytes of the part
ParseText(bytes) ==
    LET eol == EndOfLine(bytes) IN [i \in 1..Len(eol) |-> Deref(eol[i])]

\* the serializer writes a carriage return of a text node as a reference
EscapeText(chars) ==
    [i \in 1..Len(chars) |-> IF chars[i] = CR THEN CRRef ELSE chars[i]]

\* bytes.replace(old, new), old one byte long
RECURSIVE replace(_, _, _)
replace(bytes, old, new) ==
    IF bytes = <<>> THEN <<>>
    ELSE (IF Head(bytes) = old THEN new ELSE <<Head(bytes)>>)
            \o replace(Tail(bytes), old, new)

\* etree.fromstring(content): the tree, without the form of the bytes
fromstring(bytes) ==
    [rootA |-> bytes.rootA, nodes |-> bytes.nodes, text |-> ParseText(bytes.text)]

\* etree.tostring(root, xml_declaration=True, encoding='UTF-8',
\* standalone=True)
etree_tostring(tree) ==
    [kind |-> "slide", wellformed |-> TRUE, form |-> "lxml",
     rootA |-> tree.rootA, nodes |-> tree.nodes,
     head |-> <<XmlDecl, LF>>, text |-> EscapeText(tree.text)]

\* the serialized bytes with their line feeds left as they are
CrLfNot(bytes) == bytes

\* new_content.replace(b'\n', b'\r\n')
CrLf(bytes) ==
    [bytes EXCEPT !.head = replace(@, LF, <<CR, LF>>),
                  !.text = replace(@, LF, <<CR, LF>>)]

\* lines 130-131: the serialization and the CR+LF replacement
tostring(tree) == CrLf(etree_tostring(tree))

(***************************************************************************)
(* convert, src/webex_convert.py:79-132                                    *)
(***************************************************************************)
\* TargetRprs, had line 99 asked for a fill that is still a scheme colour
\* (a:solidFill/a:schemeClr)
TargetRprsSchemeFillOnly(tree) ==
    {i \in XPathAll(tree, "rPr") :
        \A f \in XPathChild(tree, i, "solidFill") :
            XPathChild(tree, f, "schemeClr") = {}}

\* lines 97-99: the rPr elements without a solidFill child
TargetRprs(tree) ==
    {i \in XPathAll(tree, "rPr") : XPathChild(tree, i, "solidFill") = {}}

\* lines 102-104: ... whose parent has a t child
TextRprs(tree) ==
    {i \in TargetRprs(tree) : XPathSibling(tree, i, "t") # {}}

\* lines 106-108: solidFill with a schemeClr tx1 as new last child of rPr i
AddFill(tree, i) ==
    LET d  == tree.nodes[i].depth
        ns == tree.rootA
    IN  [tree EXCEPT !.nodes =
            InsertAfter(tree.nodes, SubtreeEnd(tree.nodes, i),
                <<[ns |-> ns, tag |-> "solidFill", val |-> None, depth |-> d + 1],
                  [ns |-> ns, tag |-> "schemeClr", val |-> "tx1", depth |-> d + 2]>>)]

\* lines 102-108: the loop over target_rprs; the elements of `todo` are
\* taken last first, which leaves the indices of the others in place
RECURSIVE AddFills(_, _)
AddFills(tree, todo) ==
    IF todo = {} THEN tree
    ELSE LET i == CHOOSE x \in todo : \A y \in todo : y <= x
         IN  AddFills(AddFill(tree, i), todo \ {i})

\* Lookup, had line 122 looked up value instead of pm_value
LookupNoPreMap(value, cm) == DictGet(cm, value, None)

\* Lookup, had the remap of line 117 been kept for the names the map lacks
LookupLiteralFirst(value, cm) ==
    IF value \in DOMAIN cm THEN cm[value]
    ELSE DictGet(cm, DictGet(PRE_MAP, value, value), None)

\* lines 116-122: the colour of a schemeClr val, None when there is none
Lookup(value, cm) == DictGet(cm, DictGet(PRE_MAP, value, value), None)

\* lines 115-128: one element in the loop over targets
RewriteNode(n, cm) ==
    IF Lookup(n.val, cm) = None THEN n
    ELSE [n EXCEPT !.tag = "srgbClr", !.val = Lookup(n.val, cm)]

\* RewriteTargets, had line 125 left the loop (break) instead of going on
\* with the next target (continue)
RewriteTargetsStopAtAbsent(tree, targets, cm) ==
    [tree EXCEPT !.nodes =
        [i \in 1..Len(tree.nodes) |->
            IF /\ i \in targets
               /\ \A j \in targets : j <= i => Lookup(tree.nodes[j].val, cm) # None
            THEN RewriteNode(tree.nodes[i], cm)
            ELSE tree.nodes[i]]]

\* lines 115-128: the loop over targets
RewriteTargets(tree, targets, cm) ==
    [tree EXCEPT !.nodes =
        [i \in 1..Len(tree.nodes) |->
            IF i \in targets THEN RewriteNode(tree.nodes[i], cm)
            ELSE tree.nodes[i]]]

\* lines 88-91: the early return for a part without the prefix a
NoDrawingNamespace(tree) == tree.rootA = None

\* what a call of convert gives back: whether it raised, the bytes it
\* returned, and the line of the return statement it left by
Returned(bytes, line) == [raised |-> FALSE, bytes |-> bytes, exit |-> line]
Raised(bytes, line) == [raised |-> TRUE, bytes |-> bytes, exit |-> line]

\* convert(content, color_map)
convert(bytes, cm) ==
    IF ~bytes.wellformed THEN Raised(bytes, 88)
    ELSE IF bytes.kind = "rels" THEN Returned(bytes, 91)
    ELSE IF bytes.kind = "theme" THEN Returned(bytes, 113)
    ELSE LET root == fromstring(bytes)
         IN IF NoDrawingNamespace(root) THEN Returned(bytes, 91)
            ELSE LET filled  == AddFills(root, TextRprs(root))
                     targets == XPathAll(filled, "schemeClr")
                 IN  IF targets = {} THEN Returned(bytes, 113)
                     ELSE Returned(
                            tostring(RewriteTargets(filled, targets, cm)), 132)

(***************************************************************************)
(* The inputs of convert.                                                  *)
(***************************************************************************)
\* the 12 slots of a colour scheme
CanonicalSlots ==
    {"dk1", "lt1", "dk2", "lt2", "accent1", "accent2", "accent3", "accent4",
     "accent5", "accent6", "hlink", "folHlink"}

LegacyNames == DOMAIN PRE_MAP

\* the colour a theme gives each name: all different, so that two references
\* get the same colour only when they are resolved to the same slot
Palette ==
    [dk1 |-> "000001", lt1 |-> "FFFFF2", dk2 |-> "111113", lt2 |-> "EEEEE4",
     accent1 |-> "A10000", accent2 |-> "A20000", accent3 |-> "A30000",
     accent4 |-> "A40000", accent5 |-> "A50000", accent6 |-> "A60000",
     hlink |-> "0000C1", folHlink |-> "0000C2",
     bg1 |-> "B10000", tx1 |-> "B20000", bg2 |-> "B30000", tx2 |-> "B40000"]

\* a colour map with a colour for each of the 12 slots
FullMap == [k \in CanonicalSlots |-> Palette[k]]

\* the colour maps handed to convert: the full map, and the full map
\* without one slot, with None for one slot (a slot read_color_map found no
\* val for), or with an entry under one legacy name besides
ColorMaps ==
    {FullMap}
    \cup {[k \in CanonicalSlots \ {s} |-> Palette[k]] : s \in CanonicalSlots}
    \cup {[FullMap EXCEPT ![s] = None] : s \in CanonicalSlots}
    \cup {[k \in CanonicalSlots \cup {x} |-> Palette[k]] : x \in LegacyNames}

\* ... those of them handed to convert with the slides of TreeInputs
TreeMaps ==
    {FullMap, [k \in CanonicalSlots \ {"dk1"} |-> Palette[k]],
     [FullMap EXCEPT !["dk1"] = None],
     [k \in CanonicalSlots \cup {"tx1"} |-> Palette[k]]}

Element(ns, tag, val) == [ns |-> ns, tag |-> tag, val |-> val]

\* the elements of the slides of TreeInputs
TreeKinds ==
    {Element(DrawingNs, tag, None) :
        tag \in {"r", "rPr", "t", "solidFill", "gradFill"}}
    \cup {Element(DrawingNs, "srgbClr", "FF0000"),
          Element(DrawingNs, "schemeClr", "accent1"),
          Element(DrawingNs, "schemeClr", "phClr"),
          Element(OtherNs, "t", None),
          Element(OtherNs, "schemeClr", "accent1")}

\* the elements of the slides of RefInputs: a schemeClr of any val, or none.
\* These slides bind a to the drawing namespace; what convert does under
\* another binding of a is covered by the slides of TreeInputs
RefVals == CanonicalSlots \cup LegacyNames \cup {"phClr", None}
RefKinds == {Element(DrawingNs, "schemeClr", v) : v \in RefVals}

\* the depths of n elements in document order, none deeper than maxdepth:
\* the first is a child of the root, each other one at most one level
\* below the one before it
DepthSeqs(n, maxdepth) ==
    {ds \in [1..n -> 1..maxdepth] :
        \A i \in 1..n : IF i = 1 THEN ds[i] = 1 ELSE ds[i] <= ds[i - 1] + 1}

\* the tree of the elements ks at the depths ds
Tree(ks, ds) ==
    [i \in 1..Len(ks) |->
        [ns |-> ks[i].ns, tag |-> ks[i].tag, val |-> ks[i].val, depth |-> ds[i]]]

\* the bytes of a well-formed part
TextBytes(form, rootA, nodes, text) ==
    [kind |-> "slide", wellformed |-> TRUE, form |-> form,
     rootA |-> rootA, nodes |-> nodes,
     head |-> IF form = "lxml" THEN <<XmlDecl, CR, LF>> ELSE <<>>,
     text |-> text]

\* the bytes of a well-formed part without character data
Bytes(form, rootA, nodes) == TextBytes(form, rootA, nodes, <<>>)

\* bytes lxml cannot parse
Malformed == [kind |-> "blob", wellformed |-> FALSE]

Forms == {"src", "lxml"}
RootBindings == Namespaces \cup {None}

\* content is a slide of n elements of `kinds`, no deeper than maxdepth,
\* whose root binds a as one of `roots`
IsSlideOf(n, kinds, maxdepth, roots) ==
    \E f \in Forms, a \in roots :
        \E ks \in [1..n -> kinds] :
            \E ds \in DepthSeqs(n, maxdepth) :
                content = Bytes(f, a, Tree(ks, ds))

(***************************************************************************)
(* SpecConvert: convert applied to a slide, and again to what it returned. *)
(***************************************************************************)
InitConvert ==
    /\ ThemeUnused /\ DriverUnused /\ ServiceUnused /\ RelsUnused
    /\ \/ /\ \/ \E n \in 0..MaxNodes : IsSlideOf(n, TreeKinds, MaxNodes, RootBindings)
             \/ content = Malformed
          /\ color_map \in TreeMaps
       \/ /\ \E n \in 0..MaxRefs : IsSlideOf(n, RefKinds, 1, {DrawingNs})
          /\ color_map \in ColorMaps
    /\ results = <<>>

\* convert(content, color_map)
ConvertSlide ==
    /\ results = <<>>
    /\ results' = <<convert(content, color_map)>>
    /\ UNCHANGED <<content, color_map, themeVars, driverVars, relsVars, serviceVars>>

\* convert(convert(content, color_map), color_map)
ConvertAgain ==
    /\ Len(results) = 1
    /\ ~results[1].raised
    /\ results' = Append(results, convert(results[1].bytes, color_map))
    /\ UNCHANGED <<content, color_map, themeVars, driverVars, relsVars, serviceVars>>

NextConvert == ConvertSlide \/ ConvertAgain

SpecConvert == InitConvert /\ [][NextConvert]_vars

(***************************************************************************)
(* SpecText: convert applied to a slide with character data, and again to  *)
(* what it returned.                                                       *)
(***************************************************************************)
\* the bytes of character data a slide is given
SrcBytes == {CR, LF, CRRef, LFRef, Other}

\* the character data of the slides: up to MaxChars bytes
Texts == UNION {[1..n -> SrcBytes] : n \in 0..MaxChars}

\* the elements of the slides: none, a theme colour reference, a text run
\* without a fill
TextTrees ==
    {<<>>,
     Tree(<<Element(DrawingNs, "schemeClr", "accent1")>>, <<1>>),
     Tree(<<Element(DrawingNs, "rPr", None), Element(DrawingNs, "t", None)>>,
          <<1, 1>>)}

InitText ==
    /\ ThemeUnused /\ DriverUnused /\ ServiceUnused /\ RelsUnused
    /\ \E a \in {DrawingNs, None}, nodes \in TextTrees, text \in Texts :
            content = TextBytes("src", a, nodes, text)
    /\ color_map = [k \in CanonicalSlots \cup {"tx1"} |-> Palette[k]]
    /\ results = <<>>

SpecText == InitText /\ [][NextConvert]_vars

(***************************************************************************)
(* read_color_map, src/webex_convert.py:34-55.  A theme part is modelled   *)
(* by its a:themeElements/a:clrScheme element, if one is found: the        *)
(* children of the scheme in document order, each with its local name and  *)
(* its first child, NoChild when it has no child.                          *)
(***************************************************************************)
\* the first child of a slot; a slot without child
Colour(tag, val, lastClr) == [tag |-> tag, val |-> val, lastClr |-> lastClr]
NoChild == Colour(None, None, None)

\* read_color_map, had line 51 read the lastClr attribute
SlotValueLastClr(slot) == slot.child.lastClr

\* line 51: color[0].get('val')
SlotValue(slot) == slot.child.val

\* lines 48-52: the dict the loop over the children of the scheme builds; a
\* later child of the same name overwrites an earlier one
RgbMap(slots) ==
    [t \in {slots[i].tag : i \in 1..Len(slots)} |->
        LET last == CHOOSE i \in 1..Len(slots) :
                        /\ slots[i].tag = t
                        /\ \A j \in (i + 1)..Len(slots) : slots[j].tag # t
        IN  SlotValue(slots[last])]

\* what read_color_map gives back
ThemeRead(name, rgb_map) ==
    [raised |-> FALSE, error |-> None, name |-> name, rgb_map |-> rgb_map]
ThemeRaised(exception) ==
    [raised |-> TRUE, error |-> exception, name |-> None, rgb_map |-> <<>>]

\* read_color_map(zip_file, file_name), for the bytes of the part file_name
read_color_map(bytes) ==
    IF ~bytes.wellformed THEN ThemeRaised("XMLSyntaxError")
    ELSE IF bytes.kind # "theme" THEN ThemeRaised("IndexError")
    ELSE IF ~bytes.clrScheme.found THEN ThemeRaised("IndexError")
    ELSE LET slots == bytes.clrScheme.slots
         IN  IF \E i \in 1..Len(slots) : slots[i].child = NoChild
             THEN ThemeRaised("IndexError")
             ELSE ThemeRead(bytes.clrScheme.name, RgbMap(slots))

(***************************************************************************)
(* PPTXHelper.theme_color_specs, src/pptxutil/__init__.py:236-256.  The    *)
(* dict r is kept as the sequence of its entries in insertion order.  The  *)
(* children of the scheme are its slot elements: a scheme is written       *)
(* without text between them.                                              *)
(***************************************************************************)
\* what theme_color_specs gives back
SpecsReturned(name, r) ==
    [raised |-> FALSE, error |-> None, scheme_name |-> name, r |-> r]
SpecsRaised(exception) ==
    [raised |-> TRUE, error |-> exception, scheme_name |-> None, r |-> <<>>]

\* r[key] = value: a key the dict has keeps its place
SetItem(r, key, value) ==
    IF \E i \in 1..Len(r) : r[i].key = key
    THEN [i \in 1..Len(r) |->
            IF r[i].key = key THEN [key |-> key, value |-> value] ELSE r[i]]
    ELSE Append(r, [key |-> key, value |-> value])

\* the entry of a system colour without the marker
formatNoMarker(lastClr) == lastClr

\* line 251: '{}s'.format(c_spec.attrs['lastClr'])
format(lastClr) == lastClr \o "s"

\* lines 244-253: the loop over the children of the scheme
RECURSIVE SpecsLoop(_, _, _)
SpecsLoop(scheme_name, scheme, r) ==
    IF scheme = <<>> THEN SpecsReturned(scheme_name, r)
    ELSE LET color  == Head(scheme)
             c_name == color.tag
             c_spec == color.child
         IN  IF c_spec = NoChild THEN SpecsRaised("StopIteration")
             ELSE IF c_spec.tag = "srgbClr"
             THEN IF c_spec.val = None THEN SpecsRaised("KeyError")
                  ELSE SpecsLoop(scheme_name, Tail(scheme),
                                 SetItem(r, c_name, c_spec.val))
             ELSE IF c_spec.tag = "sysClr"
             THEN IF c_spec.lastClr = None THEN SpecsRaised("KeyError")
                  ELSE SpecsLoop(scheme_name, Tail(scheme),
                                 SetItem(r, c_name, format(c_spec.lastClr)))
             ELSE SpecsRaised("RuntimeError")

\* theme_color_specs(theme), for the bytes of the part `theme`.  The parser
\* of this function recovers from bytes that are not well-formed; no colour
\* scheme is found in what it recovers from Malformed
theme_color_specs(bytes) ==
    IF ~bytes.wellformed THEN SpecsRaised("AttributeError")
    ELSE IF bytes.kind # "theme" THEN SpecsRaised("AttributeError")
    ELSE IF ~bytes.clrScheme.found THEN SpecsRaised("AttributeError")
    ELSE SpecsLoop(bytes.clrScheme.name, bytes.clrScheme.slots, <<>>)

(***************************************************************************)
(* The inputs of read_color_map.                                           *)
(***************************************************************************)
SlotOrder ==
    <<"dk1", "lt1", "dk2", "lt2", "accent1", "accent2", "accent3", "accent4",
      "accent5", "accent6", "hlink", "folHlink">>

Slot(tag, child) == [tag |-> tag, child |-> child]

\* a fixed colour, a system colour with its last colour and one without, a
\* preset colour, a colour given as percentages (no val attribute)
ColourChildren(slot) ==
    {Colour("srgbClr", Palette[slot], None), Colour("srgbClr", "112233", None),
     Colour("srgbClr", None, None),
     Colour("sysClr", "windowText", "000000"),
     Colour("sysClr", "window", None),
     Colour("prstClr", "black", None),
     Colour("scrgbClr", None, None)}

\* the plain colour scheme: the 12 slots, a fixed colour each
PlainSlots == [i \in 1..12 |-> Slot(SlotOrder[i], Colour("srgbClr", Palette[SlotOrder[i]], None))]

\* the bytes of a theme part with that colour scheme
ThemeBytes(slots) ==
    [kind |-> "theme", wellformed |-> TRUE,
     clrScheme |-> [found |-> TRUE, name |-> "Office", slots |-> slots]]

\* a theme part without a colour scheme
NoSchemeTheme ==
    [kind |-> "theme", wellformed |-> TRUE,
     clrScheme |-> [found |-> FALSE, name |-> None, slots |-> <<>>]]

\* what can stand in place of slot i of a scheme: another colour child, no
\* child, or a slot of another name
SlotVariants(slots, i) ==
    {Slot(slots[i].tag, c) : c \in ColourChildren(slots[i].tag)}
    \cup {Slot(slots[i].tag, NoChild), Slot("dk1", slots[i].child),
          Slot("custClr", slots[i].child)}

\* the schemes that differ from the plain one in the slots `odd`
RECURSIVE SchemesWith(_, _)
SchemesWith(slots, odd) ==
    IF odd = {} THEN {slots}
    ELSE LET i == CHOOSE x \in odd : TRUE
         IN  UNION {SchemesWith([slots EXCEPT ![i] = v], odd \ {i}) :
                        v \in SlotVariants(slots, i)}

\* the schemes of the model: the plain one with up to MaxOddSlots slots
\* changed, with one slot left out, or with one slot more
Schemes ==
    UNION {SchemesWith(PlainSlots, odd) :
            odd \in {o \in SUBSET (1..12) : Cardinality(o) <= MaxOddSlots}}
    \cup {SubSeq(PlainSlots, 1, i - 1) \o SubSeq(PlainSlots, i + 1, 12) :
            i \in 1..12}
    \cup {Append(PlainSlots, Slot("dk1", Colour("srgbClr", "112233", None))),
          Append(PlainSlots, Slot("custClr", Colour("srgbClr", "112233", None)))}

ThemeInputs ==
    {ThemeBytes(slots) : slots \in Schemes} \cup {NoSchemeTheme, Malformed}

(***************************************************************************)
(* SpecTheme: read_color_map applied to a theme part.                      *)
(***************************************************************************)
InitTheme ==
    /\ theme_file \in ThemeInputs
    /\ theme = <<>>
    /\ color_specs = <<>>
    /\ ConvertUnused /\ DriverUnused /\ ServiceUnused /\ RelsUnused
    /\ color_map = Unused

\* read_color_map(zip_file, file_name)
ReadColorMap ==
    /\ theme = <<>>
    /\ theme' = <<read_color_map(theme_file)>>
    /\ UNCHANGED <<theme_file, color_specs, convertVars, color_map, driverVars, serviceVars,
                   relsVars>>

\* theme_color_specs(theme)
ThemeColorSpecs ==
    /\ color_specs = <<>>
    /\ color_specs' = <<theme_color_specs(theme_file)>>
    /\ UNCHANGED <<theme_file, theme, convertVars, color_map, driverVars, serviceVars,
                   relsVars>>

NextTheme == ReadColorMap \/ ThemeColorSpecs

SpecTheme == InitTheme /\ [][NextTheme]_vars

(***************************************************************************)
(* Packages.  A package is the sequence of its entries, each a part name   *)
(* and the bytes of the part; a part name is the sequence of the pieces it *)
(* is written with: "ppt/", "slides/slide", the digits and the other       *)
(* characters one by one, "xml".                                           *)
(***************************************************************************)
Digits == {"0", "1", "2", "3", "4", "5", "6", "7", "8", "9"}

\* the pieces of a name that are one character
Chars == Digits \cup {".", "_"}

\* ZipFile.namelist()
namelist(zip) == [i \in 1..Len(zip.entries) |-> zip.entries[i].file]

\* ZipFile.namelist(), had it named every part once
namelistUnique(zip) ==
    LET firsts == {i \in 1..Len(zip.entries) :
                    \A j \in 1..(i - 1) : zip.entries[j].file # zip.entries[i].file}
    IN  [k \in 1..Cardinality(firsts) |-> zip.entries[Nth(firsts, k)].file]

\* the loop of line 153: for file in file_list
file_list(zip) == namelist(zip)

\* ZipFile.open(name): the entry of that name, the last one if there are
\* several; [found |-> FALSE] stands for the KeyError
ZipOpen(zip, name) ==
    LET named == {i \in 1..Len(zip.entries) : zip.entries[i].file = name}
    IN  IF named = {} THEN [found |-> FALSE, data |-> Malformed]
        ELSE [found |-> TRUE,
              data |-> zip.entries[CHOOSE i \in named : \A j \in named : j <= i].data]

\* line 157, had the pattern been anchored at its end and its dot escaped
SlideNameExact(file) ==
    /\ Len(file) >= 5
    /\ file[1] = "ppt/" /\ file[2] = "slides/slide"
    /\ \A i \in 3..(Len(file) - 2) : file[i] \in Digits
    /\ file[Len(file) - 1] = "." /\ file[Len(file)] = "xml"

\* line 157: re.match(r'ppt/slides/slide(\d+).xml', file): the pattern at
\* the start of the name, one or more digits, any one character, xml
SlideNameMatch(file) ==
    /\ Len(file) >= 5
    /\ file[1] = "ppt/" /\ file[2] = "slides/slide"
    /\ \E k \in 1..(Len(file) - 4) :
        /\ \A i \in 3..(k + 2) : file[i] \in Digits
        /\ file[k + 3] \in Chars
        /\ file[k + 4] = "xml"

(***************************************************************************)
(* PresentationRel, src/webex_convert.py:13-31                             *)
(***************************************************************************)
\* PresentationRel.FILE
FILE == <<"ppt/", "_rels/presentation.xml.rels">>

\* the pieces of the targets in the order of their strings
PieceOrder ==
    <<"../", ".", "0", "1", "2", "3", "4", "5", "6", "7", "8", "9",
      "customXml/item", "media/image", "notesMasters/notesMaster", "png",
      "presProps", "slideLayouts/slideLayout", "slideMasters/slideMaster",
      "slides/slide", "tableStyles", "theme/theme", "viewProps", "xml">>

PieceRank(piece) == CHOOSE i \in 1..Len(PieceOrder) : PieceOrder[i] = piece

\* a < b for two strings given by their pieces
RECURSIVE StrLess(_, _)
StrLess(a, b) ==
    IF b = <<>> THEN FALSE
    ELSE IF a = <<>> THEN TRUE
    ELSE IF Head(a) = Head(b) THEN StrLess(Tail(a), Tail(b))
    ELSE PieceRank(Head(a)) < PieceRank(Head(b))

\* list.sort() of a list of strings
RECURSIVE SortStrings(_)
SortStrings(list) ==
    IF list = <<>> THEN <<>>
    ELSE LET m == CHOOSE i \in 1..Len(list) :
                    \A j \in 1..Len(list) :
                        ~StrLess(list[j], list[i]) /\ (list[j] = list[i] => i <= j)
         IN  <<list[m]>> \o
             SortStrings(SubSeq(list, 1, m - 1) \o SubSeq(list, m + 1, Len(list)))

\* line 23: child.attrib['Type'].split('/')[-1]
RelVar(child) == child.Type[Len(child.Type)]

\* lines 20-24: the targets of the relationships of one type, in file order
RelTargets(children, var) ==
    LET RECURSIVE Pick(_)
        Pick(cs) ==
            IF cs = <<>> THEN <<>>
            ELSE IF RelVar(Head(cs)) = var
                 THEN <<Head(cs).Target>> \o Pick(Tail(cs))
                 ELSE Pick(Tail(cs))
    IN  Pick(children)

\* lines 25-30: the attribute of one type: the target when there is one,
\* the sorted list of the targets when there are more
RelAttribute(targets) ==
    IF Len(targets) = 1 THEN [list |-> FALSE, value |-> targets[1]]
    ELSE [list |-> TRUE, value |-> SortStrings(targets)]

\* PresentationRel, had it taken theme/theme1.xml for the theme of a package
\* whose relationships are missing or name no theme
PresentationRelDefaultTheme(zip) ==
    LET opened   == ZipOpen(zip, FILE)
        children == IF opened.found /\ opened.data.wellformed
                    THEN opened.data.children ELSE <<>>
        named    == IF \E i \in 1..Len(children) : RelVar(children[i]) = "theme"
                    THEN children
                    ELSE Append(children,
                            [Type |-> <<"relationships", "theme">>,
                             Target |-> <<"theme/theme", "1", ".", "xml">>])
    IN  [raised |-> FALSE, error |-> None,
         dict |-> [var \in {RelVar(named[i]) : i \in 1..Len(named)} |->
                        RelAttribute(RelTargets(named, var))]]

\* PresentationRel(zip_file): the attributes of the object, or the exception
PresentationRel(zip) ==
    LET opened == ZipOpen(zip, FILE)
    IN  IF ~opened.found THEN [raised |-> TRUE, error |-> "KeyError", dict |-> <<>>]
        ELSE IF ~opened.data.wellformed
        THEN [raised |-> TRUE, error |-> "XMLSyntaxError", dict |-> <<>>]
        ELSE LET children == opened.data.children
             IN  [raised |-> FALSE, error |-> None,
                  dict |-> [var \in {RelVar(children[i]) : i \in 1..Len(children)} |->
                                RelAttribute(RelTargets(children, var))]]

(***************************************************************************)
(* convert_pptx_to_rgb, src/webex_convert.py:135-171                       *)
(***************************************************************************)
\* line 145: f'ppt/{rel.theme}'; a list is formatted as its repr
theme_name(r) ==
    IF r["theme"].list THEN <<"ppt/", "[...]">>
    ELSE <<"ppt/">> \o r["theme"].value

\* NewContents, had line 157 matched no name
NewContentsCopied(zip, file, cm) == Returned(ZipOpen(zip, file).data, 160)

\* lines 154-160: the new contents of one part, or the exception of convert
NewContents(zip, file, cm) ==
    LET file_contents == ZipOpen(zip, file).data
    IN  IF SlideNameMatch(file) THEN convert(file_contents, cm)
        ELSE Returned(file_contents, 160)

\* ZipFile(input_file), line 142
OpenInput ==
    /\ pc = "open"
    /\ IF input_file.readable
       THEN pc' = "rel" /\ error' = error
       ELSE pc' = "raised" /\ error' = "BadZipFile"
    /\ UNCHANGED <<input_file, output_file, rel, color_map, new_file_data, convertVars, themeVars,
                   serviceVars, relsVars>>

\* rel = PresentationRel(input_pptx_file), line 144
ReadPresentationRel ==
    /\ pc = "rel"
    /\ LET r == PresentationRel(input_file)
       IN  IF r.raised
           THEN pc' = "raised" /\ error' = r.error /\ rel' = rel
           ELSE pc' = "theme" /\ error' = error /\ rel' = r.dict
    /\ UNCHANGED <<input_file, output_file, color_map, new_file_data, convertVars, themeVars,
                   serviceVars, relsVars>>

\* ReadTheme, had a theme part that is missing been skipped, with no colour
\* for any slot
ReadThemeSkipMissing ==
    /\ pc = "theme"
    /\ IF "theme" \notin DOMAIN rel
       THEN pc' = "raised" /\ error' = "AttributeError" /\ color_map' = color_map
       ELSE LET opened == ZipOpen(input_file, theme_name(rel))
                read   == read_color_map(opened.data)
            IN  IF ~opened.found
                THEN pc' = "parts" /\ error' = error
                     /\ color_map' = [k \in {} |-> None]
                ELSE IF read.raised
                THEN pc' = "raised" /\ error' = read.error /\ color_map' = color_map
                ELSE pc' = "parts" /\ error' = error /\ color_map' = read.rgb_map
    /\ UNCHANGED <<input_file, output_file, rel, new_file_data, convertVars, themeVars,
                   serviceVars, relsVars>>

\* lines 145-147: the colour map of the theme the relationships name
ReadTheme ==
    /\ pc = "theme"
    /\ IF "theme" \notin DOMAIN rel
       THEN pc' = "raised" /\ error' = "AttributeError" /\ color_map' = color_map
       ELSE LET opened == ZipOpen(input_file, theme_name(rel))
                read   == read_color_map(opened.data)
            IN  IF ~opened.found
                THEN pc' = "raised" /\ error' = "KeyError" /\ color_map' = color_map
                ELSE IF read.raised
                THEN pc' = "raised" /\ error' = read.error /\ color_map' = color_map
                ELSE pc' = "parts" /\ error' = error /\ color_map' = read.rgb_map
    /\ UNCHANGED <<input_file, output_file, rel, new_file_data, convertVars, themeVars,
                   serviceVars, relsVars>>

\* lines 153-166: one turn of the loop over file_list
ReadPart ==
    /\ pc = "parts"
    /\ Len(new_file_data) < Len(file_list(input_file))
    /\ LET file == file_list(input_file)[Len(new_file_data) + 1]
           new  == NewContents(input_file, file, color_map)
       IN  IF new.raised
           THEN pc' = "raised" /\ error' = "XMLSyntaxError"
                /\ new_file_data' = new_file_data
           ELSE pc' = pc /\ error' = error
                /\ new_file_data' =
                    Append(new_file_data, [file |-> file, data |-> new.bytes])
    /\ UNCHANGED <<input_file, output_file, rel, color_map, convertVars, themeVars,
                   serviceVars, relsVars>>

\* CreateOutput, had the output package been created before the loop over
\* file_list
CreateOutputEarly ==
    /\ pc = "parts"
    /\ ~output_file.exists \/ Len(new_file_data) = Len(file_list(input_file))
    /\ output_file' = [exists |-> TRUE, entries |-> <<>>]
    /\ pc' = IF Len(new_file_data) = Len(file_list(input_file)) THEN "write" ELSE pc
    /\ UNCHANGED <<input_file, rel, color_map, new_file_data, error, convertVars, themeVars,
                   serviceVars, relsVars>>

\* line 169: ZipFile(output_file, 'w'), once the loop and the with block
\* of the input are left
CreateOutput ==
    /\ pc = "parts"
    /\ Len(new_file_data) = Len(file_list(input_file))
    /\ output_file' = [exists |-> TRUE, entries |-> <<>>]
    /\ pc' = "write"
    /\ UNCHANGED <<input_file, rel, color_map, new_file_data, error, convertVars, themeVars,
                   serviceVars, relsVars>>

\* WritePart, had the output path been the input path: the part is written
\* over the part of the input
WritePartInPlace ==
    /\ pc = "write"
    /\ Len(output_file.entries) < Len(new_file_data)
    /\ output_file' =
        [output_file EXCEPT !.entries =
            Append(@, new_file_data[Len(output_file.entries) + 1])]
    /\ input_file' =
        [input_file EXCEPT !.entries[Len(output_file.entries) + 1] =
            new_file_data[Len(output_file.entries) + 1]]
    /\ UNCHANGED <<pc, rel, color_map, new_file_data, error, convertVars, themeVars,
                   serviceVars, relsVars>>

\* lines 170-171: one turn of the loop over new_file_data
WritePart ==
    /\ pc = "write"
    /\ Len(output_file.entries) < Len(new_file_data)
    /\ output_file' =
        [output_file EXCEPT !.entries =
            Append(@, new_file_data[Len(output_file.entries) + 1])]
    /\ UNCHANGED <<input_file, pc, rel, color_map, new_file_data, error, convertVars, themeVars,
                   serviceVars, relsVars>>

\* the end of the with block of line 169: convert_pptx_to_rgb returns
CloseOutput ==
    /\ pc = "write"
    /\ Len(output_file.entries) = Len(new_file_data)
    /\ pc' = "done"
    /\ UNCHANGED <<input_file, output_file, rel, color_map, new_file_data, error,
                   convertVars, themeVars, serviceVars, relsVars>>

\* the caller hands the package written to convert_pptx_to_rgb again, with
\* a new output path
ConvertOutput ==
    /\ pc = "done"
    /\ ~input_file.converted
    /\ input_file' = [readable |-> TRUE, converted |-> TRUE,
                      entries |-> output_file.entries]
    /\ output_file' = [exists |-> FALSE, entries |-> <<>>]
    /\ pc' = "open"
    /\ rel' = <<>>
    /\ color_map' = <<>>
    /\ new_file_data' = <<>>
    /\ UNCHANGED <<error, convertVars, themeVars, serviceVars, relsVars>>

(***************************************************************************)
(* The input packages.                                                     *)
(***************************************************************************)
SlideName(digits) == <<"ppt/", "slides/slide">> \o digits \o <<".", "xml">>
ThemeName(digits) == <<"ppt/", "theme/theme">> \o digits \o <<".", "xml">>

\* a slide with one scheme colour reference
RefSlide(val) ==
    Bytes("src", DrawingNs,
          <<[ns |-> DrawingNs, tag |-> "schemeClr", val |-> val, depth |-> 1]>>)

\* a slide with a text run without fill
TextSlide ==
    Bytes("src", DrawingNs,
          <<[ns |-> DrawingNs, tag |-> "rPr", val |-> None, depth |-> 1],
            [ns |-> DrawingNs, tag |-> "t", val |-> None, depth |-> 1]>>)

\* a part without the prefix a and without elements
EmptySlide == Bytes("src", None, <<>>)

PackageSlides == {RefSlide("tx1"), RefSlide("accent2"), TextSlide, EmptySlide, Malformed}

\* the themes of the packages: the plain scheme, and the plain scheme with
\* another colour child for dk1
PackageThemes ==
    {ThemeBytes([PlainSlots EXCEPT ![1] = Slot("dk1", c)]) :
        c \in {Colour("srgbClr", Palette["dk1"], None),
               Colour("srgbClr", "112233", None),
               Colour("sysClr", "windowText", "000000"),
               Colour("prstClr", "black", None),
               Colour("scrgbClr", None, None)}}
    \cup {Malformed}

Relationship(type, target) == [Type |-> <<"relationships", type>>, Target |-> target]
RelsBytes(children) == [kind |-> "rels", wellformed |-> TRUE, children |-> children]

PackageRels ==
    {RelsBytes(<<Relationship("theme", <<"theme/theme", "1", ".", "xml">>)>>),
     RelsBytes(<<Relationship("slide", <<"slides/slide", "1", ".", "xml">>)>>),
     RelsBytes(<<Relationship("theme", <<"theme/theme", "2", ".", "xml">>),
                 Relationship("theme", <<"theme/theme", "1", ".", "xml">>)>>),
     RelsBytes(<<Relationship("slide", <<"slides/slide", "1", ".", "xml">>),
                 Relationship("theme", <<"theme/theme", "1", ".", "xml">>)>>),
     Malformed}

\* a part that is no XML
Blob == [kind |-> "blob", wellformed |-> FALSE]

Entry(file, data) == [file |-> file, data |-> data]

\* the entries of the packages: slides under the names line 157 matches
\* (slide1.xml, slide1.xml.bak, slide12xml) and under names it does not
\* match (slide.xml, x/ppt/slides/slide1.xml), themes, the presentation
\* relationships, the content types
PackageEntries ==
    {Entry(SlideName(<<"1">>), b) : b \in PackageSlides}
    \cup {Entry(SlideName(<<"1">>) \o <<".bak">>, RefSlide("tx1")),
          Entry(<<"ppt/", "slides/slide", "1", "2", "xml">>, RefSlide("tx1")),
          Entry(SlideName(<<>>), RefSlide("tx1")),
          Entry(<<"x/">> \o SlideName(<<"1">>), RefSlide("tx1")),
          Entry(<<"[Content_Types].xml">>, Blob)}
    \cup {Entry(ThemeName(<<"1">>), b) : b \in PackageThemes}
    \cup {Entry(FILE, b) : b \in PackageRels}

\* a slide with drawing elements, without scheme colour reference and
\* without text run
NoRefSlide ==
    Bytes("src", DrawingNs,
          <<[ns |-> DrawingNs, tag |-> "srgbClr", val |-> "FF0000", depth |-> 1]>>)

\* the slides of the decks
DeckSlides ==
    {Entry(SlideName(<<d>>), b) :
        d \in {"1", "2"},
        b \in {RefSlide("accent2"), RefSlide("tx1"), TextSlide, NoRefSlide, EmptySlide}}

\* a deck: the presentation relationships naming theme1, the theme, and the
\* slides
Deck(theme_bytes, slides) ==
    <<Entry(FILE, RelsBytes(<<Relationship("theme", <<"theme/theme", "1", ".", "xml">>)>>)),
      Entry(ThemeName(<<"1">>), theme_bytes)>> \o slides

(***************************************************************************)
(* Spec: convert_pptx_to_rgb applied to a package, and to its output.      *)
(***************************************************************************)
Init ==
    /\ \/ \E n \in 0..MaxParts :
            \E es \in [1..n -> PackageEntries] :
                input_file = [readable |-> TRUE, converted |-> FALSE, entries |-> es]
       \/ \E n \in 0..MaxSlides :
            \E t \in PackageThemes \ {Malformed}, ss \in [1..n -> DeckSlides] :
                input_file = [readable |-> TRUE, converted |-> FALSE,
                              entries |-> Deck(t, ss)]
       \/ input_file = [readable |-> FALSE, converted |-> FALSE, entries |-> <<>>]
    /\ output_file = [exists |-> FALSE, entries |-> <<>>]
    /\ pc = "open"
    /\ rel = <<>>
    /\ color_map = <<>>
    /\ new_file_data = <<>>
    /\ error = None
    /\ ConvertUnused /\ ThemeUnused /\ ServiceUnused /\ RelsUnused

Next ==
    \/ OpenInput
    \/ ReadPresentationRel
    \/ ReadTheme
    \/ ReadPart
    \/ CreateOutput
    \/ WritePart
    \/ CloseOutput
    \/ ConvertOutput

Spec == Init /\ [][Next]_vars

(***************************************************************************)
(* Rel.from_tree and its subclasses, src/pptxutil/__init__.py:42-127.      *)
(* A keyword dictionary is the function from the field names to the        *)
(* values, each value as RelAttribute gives it.                            *)
(***************************************************************************)
\* lines 51-52: the target without a leading ../
StripParent(target) ==
    IF target # <<>> /\ Head(target) = "../" THEN Tail(target) ELSE target

\* inflection.underscore, for the relationship types of the model
underscore ==
    [slide |-> "slide", slideMaster |-> "slide_master", theme |-> "theme",
     notesMaster |-> "notes_master", presProps |-> "pres_props",
     tableStyles |-> "table_styles", viewProps |-> "view_props",
     slideLayout |-> "slide_layout", notesSlide |-> "notes_slide",
     image |-> "image", hyperlink |-> "hyperlink", customXml |-> "custom_xml"]

\* fields(cls): for each field whether its type is a list (get_origin is not
\* None) and whether it has no default
Field(is_list, required) == [is_list |-> is_list, required |-> required]

cls_fields(cls) ==
    IF cls = "PresentationRel"
    THEN [notes_master |-> Field(FALSE, TRUE), pres_props |-> Field(FALSE, TRUE),
          slide |-> Field(TRUE, TRUE), slide_master |-> Field(TRUE, TRUE),
          table_styles |-> Field(FALSE, TRUE), theme |-> Field(FALSE, TRUE),
          view_props |-> Field(FALSE, TRUE)]
    ELSE [slide_layout |-> Field(FALSE, TRUE), notes_slide |-> Field(FALSE, FALSE),
          image |-> Field(TRUE, FALSE), hyperlink |-> Field(TRUE, FALSE)]

\* lines 49-54: the targets of the relationships of one type, each without
\* its leading ../, in file order
StrippedTargets(children, var) ==
    LET targets == RelTargets(children, var)
    IN  [i \in 1..Len(targets) |-> StripParent(targets[i])]

DigitOrder == <<"0", "1", "2", "3", "4", "5", "6", "7", "8", "9">>
DigitValue(d) == (CHOOSE i \in 1..10 : DigitOrder[i] = d) - 1

\* int() of a string of digits
RECURSIVE int(_)
int(digits) ==
    IF digits = <<>> THEN 0
    ELSE 10 * int(SubSeq(digits, 1, Len(digits) - 1)) + DigitValue(digits[Len(digits)])

\* lines 100-101: slide_re.match(s), for the pattern .+slide(\d+).xml: the
\* digits of group 1, <<>> when the pattern does not match.  The targets of
\* the model have slide in the piece slides/slide only
SlideDigits(s) ==
    LET at == {i \in 1..Len(s) : s[i] = "slides/slide"}
    IN  IF at = {} THEN <<>>
        ELSE LET i    == CHOOSE x \in at : \A y \in at : y <= x
                 ends == {j \in i..Len(s) : \A k \in (i + 1)..j : s[k] \in Digits}
                 e    == CHOOSE x \in ends : \A y \in ends : y <= x
             IN  IF e > i /\ Len(s) >= e + 2 /\ s[e + 2] = "xml"
                 THEN SubSeq(s, i + 1, e)
                 ELSE IF e > i + 1 /\ Len(s) >= e + 1 /\ s[e + 1] = "xml"
                 THEN SubSeq(s, i + 1, e - 1)
                 ELSE <<>>

\* SortBySlideNumber, had __post_init__ left the list as from_tree sorts it
SortBySlideNumberNot(list) == list

\* list.sort(key=...): a stable sort by the slide number
RECURSIVE SortBySlideNumber(_)
SortBySlideNumber(list) ==
    IF list = <<>> THEN <<>>
    ELSE LET key(i) == int(SlideDigits(list[i]))
             m == CHOOSE i \in 1..Len(list) :
                    \A j \in 1..Len(list) :
                        key(i) <= key(j) /\ (key(j) = key(i) => i <= j)
         IN  <<list[m]>> \o
             SortBySlideNumber(SubSeq(list, 1, m - 1) \o SubSeq(list, m + 1, Len(list)))

\* lines 99-101: PresentationRel.__post_init__
post_init(init) ==
    IF \E i \in 1..Len(init["slide"].value) : SlideDigits(init["slide"].value[i]) = <<>>
    THEN [raised |-> TRUE, error |-> "AttributeError", init |-> init]
    ELSE [raised |-> FALSE, error |-> None,
          init |-> [init EXCEPT !["slide"].value = SortBySlideNumber(@)]]

\* the types of the relationships of a part
RelVars(children) == {RelVar(children[i]) : i \in 1..Len(children)}

\* Rel.from_tree(tree), called on the class cls: the keyword dictionary the
\* object is made of and the types without field, or the exception
from_tree(cls, children) ==
    LET flds      == cls_fields(cls)
        known     == {var \in RelVars(children) : underscore[var] \in DOMAIN flds}
        undefined == {underscore[var] : var \in RelVars(children) \ known}
        Var(k)    == CHOOSE var \in known : underscore[var] = k
        init      == [k \in {underscore[var] : var \in known} |->
                        LET v == StrippedTargets(children, Var(k))
                        IN  IF flds[k].is_list
                            THEN [list |-> TRUE, value |-> SortStrings(v)]
                            ELSE [list |-> FALSE, value |-> v[1]]]
    IN  IF \E k \in DOMAIN flds : flds[k].required /\ k \notin DOMAIN init
        THEN [raised |-> TRUE, error |-> "TypeError", init |-> init,
              undefined |-> undefined]
        ELSE IF cls = "PresentationRel"
        THEN LET made == post_init(init)
             IN  [raised |-> made.raised, error |-> made.error, init |-> made.init,
                  undefined |-> undefined]
        ELSE [raised |-> FALSE, error |-> None, init |-> init, undefined |-> undefined]

(***************************************************************************)
(* The relationships parts.                                                *)
(***************************************************************************)
Target(dir, digits, ext) == <<dir>> \o digits \o <<".", ext>>

\* the relationships a presentation must have for pptxutil's PresentationRel,
\* besides slide and slideMaster
RequiredRels ==
    <<Relationship("notesMaster", Target("notesMasters/notesMaster", <<"1">>, "xml")),
      Relationship("presProps", <<"presProps", ".", "xml">>),
      Relationship("tableStyles", <<"tableStyles", ".", "xml">>),
      Relationship("theme", Target("theme/theme", <<"1">>, "xml")),
      Relationship("viewProps", <<"viewProps", ".", "xml">>)>>

\* the other relationships: slides 1, 2 and 10, a slide without number, a
\* slide one directory up, masters, layouts and images, a second theme, a
\* type no class has a field for
OtherRels ==
    {Relationship("slide", Target("slides/slide", d, "xml")) :
        d \in {<<"1">>, <<"2">>, <<"1", "0">>, <<>>}}
    \cup {Relationship("slide", <<"../">> \o Target("slides/slide", <<"2">>, "xml"))}
    \cup {Relationship("slideMaster", Target("slideMasters/slideMaster", <<d>>, "xml")) :
            d \in {"1", "2"}}
    \cup {Relationship("slideLayout",
                       <<"../">> \o Target("slideLayouts/slideLayout", <<d>>, "xml")) :
            d \in {"1", "2"}}
    \cup {Relationship("image", <<"../">> \o Target("media/image", <<d>>, "png")) :
            d \in {"1", "2"}}
    \cup {Relationship("theme", Target("theme/theme", <<"2">>, "xml")),
          Relationship("customXml", <<"../">> \o Target("customXml/item", <<"1">>, "xml"))}

Classes == {"PresentationRel", "SlideRel"}

\* what a parser that has not run has returned
NotRun == [run |-> FALSE]

(***************************************************************************)
(* SpecRels: the relationship parsers of the repository, each applied to   *)
(* one relationships part: Rel.from_tree called on a class of pptxutil,    *)
(* and the PresentationRel of the conversion.                              *)
(***************************************************************************)
InitRels ==
    /\ \E cls \in Classes, base \in {<<>>, RequiredRels} :
        \E n \in 0..MaxRels :
            \E cs \in [1..n -> OtherRels] :
                rels_tree = [cls |-> cls, children |-> base \o cs]
    /\ rels = [from_tree |-> NotRun, PresentationRel |-> NotRun]
    /\ ConvertUnused /\ ThemeUnused /\ DriverUnused /\ ServiceUnused
    /\ color_map = Unused

\* cls.from_tree(tree)
FromTree ==
    /\ ~rels.from_tree.run
    /\ rels' = [rels EXCEPT !.from_tree =
                    [run |-> TRUE,
                     result |-> from_tree(rels_tree.cls, rels_tree.children)]]
    /\ UNCHANGED <<rels_tree, convertVars, color_map, themeVars, driverVars, serviceVars>>

\* PresentationRel(zip_file) of the conversion, for a package that has the
\* part as its presentation relationships
ParsePresentationRel ==
    /\ ~rels.PresentationRel.run
    /\ rels' = [rels EXCEPT !.PresentationRel =
                    [run |-> TRUE,
                     result |-> PresentationRel(
                        [entries |-> <<Entry(FILE, RelsBytes(rels_tree.children))>>])]]
    /\ UNCHANGED <<rels_tree, convertVars, color_map, themeVars, driverVars, serviceVars>>

NextRels == FromTree \/ ParsePresentationRel

SpecRels == InitRels /\ [][NextRels]_vars

(***************************************************************************)
(* BotMessageProcessor, src/convert_bot.py:42-152                          *)
(***************************************************************************)
\* range(60), line 62
Tries == 60

\* the address of lines 137 and 146-150
OperatorEmail == "jkrohn@cisco.com"

\* a response of the server to session.get: its status, whether it has a
\* content-disposition header with a filename, and the filename; `none` is
\* set for the None get_file yields when it gives up
Response(status_code, content_disposition, file_name) ==
    [none |-> FALSE, status_code |-> status_code,
     content_disposition |-> content_disposition, file_name |-> file_name]

NoResponse ==
    [none |-> TRUE, status_code |-> 0, content_disposition |-> FALSE, file_name |-> <<>>]

\* the n-th response of the server for an attachment: 423 as long as the
\* attachment is locked, then the response of the download
ServerResponse(att, n) ==
    IF n <= att.locked
    THEN Response(423, att.lock_header, att.file_name)
    ELSE Response(att.status, att.header, att.file_name)

\* a call of api.messages.create: the receiver, the text, the attachment of
\* the message it is about, and the files it carries
Create(to, text, file, files) ==
    [to |-> to, text |-> text, file |-> file, files |-> files]

\* os.path.splitext of a file name given as its stem and its suffixes: the
\* last suffix is the extension
splitext(file_name) ==
    IF Len(file_name) > 1
    THEN <<SubSeq(file_name, 1, Len(file_name) - 1), file_name[Len(file_name)]>>
    ELSE <<file_name, "">>

\* str.lower() of the extensions of the model
lower(ext) ==
    IF ext \in {".pptx", ".PPTX", ".Pptx"} THEN ".pptx"
    ELSE IF ext \in {".txt", ".TXT"} THEN ".txt"
    ELSE ext

\* IsPptx, had line 115 compared ext without lower()
IsPptxCaseSensitive(ext) == ext = ".pptx"

\* line 115: ext.lower() != '.pptx' is false
IsPptx(ext) == lower(ext) = ".pptx"

\* line 121: os.path.join(tempdir, file_name)
full_path(file_name) == <<"tempdir/">> \o file_name

\* line 129: f'{os.path.splitext(full_path)[0]}_rgb.pptx'
rgb_path(file_name) == splitext(full_path(file_name))[1] \o <<"_rgb.pptx">>

\* lines 101-105, 109, 120 and the end of the loop body: on to the next
\* attachment, or out of process_message_sync
NextAttachment ==
    IF file_idx < Len(message.files)
    THEN file_idx' = file_idx + 1 /\ tries' = 0 /\ bpc' = "get"
    ELSE file_idx' = file_idx /\ tries' = tries /\ bpc' = "return"

\* lines 92-101: a message without attachment is answered with a hint
StartMessage ==
    /\ bpc = "start"
    /\ IF Len(message.files) = 0
       THEN /\ sent' = Append(sent, Create("room", "Send me a PPTX file", 0, <<>>))
            /\ bpc' = "return"
       ELSE sent' = sent /\ bpc' = "get"
    /\ UNCHANGED <<message, file_idx, tries, response, calls, yields>>
    /\ UNCHANGED <<convertVars, color_map, themeVars, driverVars, relsVars, transportVars, hookVars>>

\* lines 62-77: one turn of the loop of get_file: the request, and for 423
\* the message to the room, for any other status the yield
GetFileRequest ==
    /\ bpc = "get"
    /\ tries < Tries
    /\ tries' = tries + 1
    /\ LET r == ServerResponse(message.files[file_idx], tries + 1)
       IN  IF r.status_code = 423
           THEN /\ IF r.content_disposition
                   THEN /\ sent' = Append(sent, Create("room", "Waiting", file_idx, <<>>))
                        /\ bpc' = "sleep"
                   ELSE sent' = sent /\ bpc' = "raised in get_file"
                /\ UNCHANGED <<response, yields>>
           ELSE /\ response' = r
                /\ yields' = [yields EXCEPT ![file_idx] = @ + 1]
                /\ bpc' = "body"
                /\ sent' = sent
    /\ UNCHANGED <<message, file_idx, calls>>
    /\ UNCHANGED <<convertVars, color_map, themeVars, driverVars, relsVars, transportVars, hookVars>>

\* lines 74-75: time.sleep(retry); continue
Sleep ==
    /\ bpc = "sleep"
    /\ bpc' = "get"
    /\ UNCHANGED <<message, file_idx, tries, response, sent, calls, yields>>
    /\ UNCHANGED <<convertVars, color_map, themeVars, driverVars, relsVars, transportVars, hookVars>>

\* lines 78-82: the else of the loop of get_file
GetFileGiveUp ==
    /\ bpc = "get"
    /\ tries = Tries
    /\ sent' = Append(sent, Create("room", "took too long", file_idx, <<>>))
    /\ response' = NoResponse
    /\ yields' = [yields EXCEPT ![file_idx] = @ + 1]
    /\ bpc' = "body"
    /\ UNCHANGED <<message, file_idx, tries, calls>>
    /\ UNCHANGED <<convertVars, color_map, themeVars, driverVars, relsVars, transportVars, hookVars>>

\* lines 104-128: the body of the with statement of line 103
CheckAttachment ==
    /\ bpc = "body"
    /\ IF response.none \/ response.status_code # 200
       THEN sent' = sent /\ NextAttachment
       ELSE IF ~response.content_disposition
       THEN /\ sent' = sent /\ bpc' = "raised in process_message_sync"
            /\ UNCHANGED <<file_idx, tries>>
       ELSE IF ~IsPptx(splitext(response.file_name)[2])
       THEN /\ sent' = Append(sent, Create("room", "Send me a PPTX (and not", file_idx, <<>>))
            /\ NextAttachment
       ELSE /\ sent' = Append(sent, Create("room", "Downloading", file_idx, <<>>))
            /\ bpc' = "convert"
            /\ UNCHANGED <<file_idx, tries>>
    /\ UNCHANGED <<message, response, calls, yields>>
    /\ UNCHANGED <<convertVars, color_map, themeVars, driverVars, relsVars, transportVars, hookVars>>

\* ConvertOutcome, had line 135 not been there: the exception of
\* convert_pptx_to_rgb leaves process_message_sync
ConvertOutcomeUncaught(att, email, i) ==
    IF ~att.sound THEN [raised |-> TRUE, sent |-> <<>>]
    ELSE [raised |-> FALSE,
          sent |-> <<Create("room", "Here is the converted PPTX", i,
                            <<rgb_path(att.file_name)>>)>> \o
                   IF email # OperatorEmail
                   THEN <<Create(OperatorEmail, "Converted for", i, <<rgb_path(att.file_name)>>),
                          Create(OperatorEmail, "Original file", i, <<full_path(att.file_name)>>)>>
                   ELSE <<>>]

\* lines 133-152: the call of convert_pptx_to_rgb for attachment i and the
\* messages created after it; convert_pptx_to_rgb raises for a file that is
\* no package it can convert (Spec, pc = "raised")
ConvertOutcome(att, email, i) ==
    IF ~att.sound
    THEN [raised |-> FALSE,
          sent |-> <<Create(OperatorEmail, "conversion failed", i,
                            <<full_path(att.file_name)>>)>>]
    ELSE [raised |-> FALSE,
          sent |-> <<Create("room", "Here is the converted PPTX", i,
                            <<rgb_path(att.file_name)>>)>> \o
                   IF email # OperatorEmail
                   THEN <<Create(OperatorEmail, "Converted for", i, <<rgb_path(att.file_name)>>),
                          Create(OperatorEmail, "Original file", i, <<full_path(att.file_name)>>)>>
                   ELSE <<>>]

\* lines 129-152: the conversion of the downloaded attachment
ConvertAttachment ==
    /\ bpc = "convert"
    /\ calls' = Append(calls, file_idx)
    /\ LET outcome == ConvertOutcome(message.files[file_idx], message.person_email, file_idx)
       IN  /\ sent' = Append(sent, Create("room", "Converting", file_idx, <<>>)) \o outcome.sent
           /\ IF outcome.raised
              THEN bpc' = "raised in process_message_sync" /\ UNCHANGED <<file_idx, tries>>
              ELSE NextAttachment
    /\ UNCHANGED <<message, response, yields>>
    /\ UNCHANGED <<convertVars, color_map, themeVars, driverVars, relsVars, transportVars, hookVars>>

(***************************************************************************)
(* The messages sent to the bot.                                           *)
(***************************************************************************)
\* an attachment: the number of 423 responses the server gives before the
\* download, whether these carry a content-disposition header, the status
\* and the header of the download, the file name, and whether the file is a
\* package convert_pptx_to_rgb converts
Attachment(locked, lock_header, status, header, file_name, sound) ==
    [locked |-> locked, lock_header |-> lock_header, status |-> status,
     header |-> header, file_name |-> file_name, sound |-> sound]

FileNames ==
    {<<"deck", ".pptx">>, <<"DECK", ".PPTX">>, <<"notes", ".txt">>,
     <<"deck", ".pptx", ".bak">>, <<"pptx">>, <<".pptx">>}

Attachments ==
    {Attachment(l, TRUE, st, TRUE, <<"deck", ".pptx">>, TRUE) :
        l \in {0, 1, Tries - 1, Tries}, st \in {200, 404}}
    \cup {Attachment(1, FALSE, 200, TRUE, <<"deck", ".pptx">>, TRUE)}
    \cup {Attachment(0, TRUE, 200, TRUE, n, sd) : n \in FileNames, sd \in BOOLEAN}
    \cup {Attachment(0, TRUE, 200, FALSE, <<"deck", ".pptx">>, TRUE)}

(***************************************************************************)
(* SpecBot: process_message_sync called with one message.                  *)
(***************************************************************************)
InitBot ==
    /\ \E n \in 0..MaxFiles :
        \E fs \in [1..n -> Attachments], e \in {"user@example.com", OperatorEmail} :
            /\ message = [person_email |-> e, files |-> fs]
            /\ yields = [i \in 1..n |-> 0]
    /\ bpc = "start"
    /\ file_idx = 1
    /\ tries = 0
    /\ response = NoResponse
    /\ sent = <<>>
    /\ calls = <<>>
    /\ ConvertUnused /\ ThemeUnused /\ DriverUnused /\ TransportUnused /\ HookUnused
    /\ RelsUnused
    /\ color_map = Unused

NextBot ==
    \/ StartMessage
    \/ GetFileRequest
    \/ Sleep
    \/ GetFileGiveUp
    \/ CheckAttachment
    \/ ConvertAttachment

SpecBot == InitBot /\ [][NextBot]_vars

(***************************************************************************)
(* BotWebhook.setup_hooks, src/convert_bot.py:205-243                      *)
(***************************************************************************)
\* a webhook of the registry
Hook(webhook_id, secret, target_url) ==
    [webhook_id |-> webhook_id, secret |-> secret, target_url |-> target_url]

\* the locals of a worker in setup_hooks: where it is, the list of line 216,
\* the index in it of the loop of line 227, self._secret, and the number of
\* webhooks it has created
Worker(wpc, listed, todo, secret, created) ==
    [pc |-> wpc, hooks |-> listed, todo |-> todo, _secret |-> secret,
     created |-> created]

\* the webhook ids of a list of webhooks
HookIds(list) == {list[i].webhook_id : i \in 1..Len(list)}

\* the registry without the webhook of an id
Without(list, webhook_id) ==
    LET keep == {i \in 1..Len(list) : list[i].webhook_id # webhook_id}
    IN  [k \in 1..Cardinality(keep) |-> list[Nth(keep, k)]]

\* Registered, had api.webhook.list given the newest webhook first
RegisteredNewestFirst(list, hook) == <<hook>> \o list

\* api.webhook.create: the registry with a new webhook; api.webhook.list
\* gives the webhooks in the order they were created in
Registered(list, hook) == Append(list, hook)

\* line 216: hooks = list(api.webhook.list())
ListHooks(w) ==
    /\ workers[w].pc = "list"
    /\ workers' = [workers EXCEPT ![w].hooks = hooks,
                                  ![w].todo = 2,
                                  ![w].pc = IF hooks = <<>> THEN "create" ELSE "delete"]
    /\ UNCHANGED hooks
    /\ UNCHANGED <<convertVars, color_map, themeVars, driverVars, relsVars, botVars, transportVars>>

\* lines 218-225: api.webhook.create with the secret of the worker
CreateHook(w) ==
    /\ workers[w].pc = "create"
    /\ hooks' = Registered(hooks,
                    Hook(<<w, workers[w].created + 1>>, workers[w]._secret, "url"))
    /\ workers' = [workers EXCEPT ![w].created = @ + 1, ![w].pc = "sleep"]
    /\ UNCHANGED <<convertVars, color_map, themeVars, driverVars, relsVars, botVars, transportVars>>

\* lines 227-232: one turn of the loop over hooks[1:]; the RestError for a
\* webhook that is gone is passed over
DeleteHook(w) ==
    /\ workers[w].pc = "delete"
    /\ workers[w].todo <= Len(workers[w].hooks)
    /\ hooks' = Without(hooks, workers[w].hooks[workers[w].todo].webhook_id)
    /\ workers' = [workers EXCEPT ![w].todo = @ + 1]
    /\ UNCHANGED <<convertVars, color_map, themeVars, driverVars, relsVars, botVars, transportVars>>

\* UpdateHook, had line 237 no break
UpdateHookNoBreak(w) ==
    /\ workers[w].pc = "delete"
    /\ workers[w].todo > Len(workers[w].hooks)
    /\ LET first == workers[w].hooks[1]
       IN  IF first.webhook_id \notin HookIds(hooks)
           THEN /\ workers' = [workers EXCEPT ![w].pc = "raised"]
                /\ hooks' = hooks
           ELSE /\ hooks' = [i \in 1..Len(hooks) |->
                                IF hooks[i].webhook_id = first.webhook_id
                                THEN Hook(first.webhook_id, first.secret, "url")
                                ELSE hooks[i]]
                /\ workers' = [workers EXCEPT
                                ![w]._secret = first.secret,
                                ![w].pc = "sleep"]
    /\ UNCHANGED <<convertVars, color_map, themeVars, driverVars, relsVars, botVars, transportVars>>

\* lines 233-238: api.webhook.update of hooks[0], which raises for a
\* webhook that is gone; the secret of hooks[0] taken over; the break
UpdateHook(w) ==
    /\ workers[w].pc = "delete"
    /\ workers[w].todo > Len(workers[w].hooks)
    /\ LET first == workers[w].hooks[1]
       IN  IF first.webhook_id \notin HookIds(hooks)
           THEN /\ workers' = [workers EXCEPT ![w].pc = "raised"]
                /\ hooks' = hooks
           ELSE /\ hooks' = [i \in 1..Len(hooks) |->
                                IF hooks[i].webhook_id = first.webhook_id
                                THEN Hook(first.webhook_id, first.secret, "url")
                                ELSE hooks[i]]
                /\ workers' = [workers EXCEPT
                                ![w]._secret = first.secret,
                                ![w].pc = IF Len(workers[w].hooks) = 1
                                          THEN "done" ELSE "sleep"]
    /\ UNCHANGED <<convertVars, color_map, themeVars, driverVars, relsVars, botVars, transportVars>>

\* lines 239-241: time.sleep(s), and back to line 216
SleepHooks(w) ==
    /\ workers[w].pc = "sleep"
    /\ workers' = [workers EXCEPT ![w].pc = "list"]
    /\ UNCHANGED hooks
    /\ UNCHANGED <<convertVars, color_map, themeVars, driverVars, relsVars, botVars, transportVars>>

(***************************************************************************)
(* SpecHooks: the workers of gunicorn, each in setup_hooks, on one         *)
(* registry; worker w has the secret w, the webhooks of earlier runs have  *)
(* the secret 0.                                                           *)
(***************************************************************************)
InitHooks ==
    /\ \E n \in 0..MaxOldHooks :
        hooks = [i \in 1..n |-> Hook(<<0, i>>, 0, "old url")]
    /\ \E n \in 1..MaxWorkers :
        workers = [w \in 1..n |-> Worker("list", <<>>, 2, w, 0)]
    /\ ConvertUnused /\ ThemeUnused /\ DriverUnused /\ BotUnused /\ TransportUnused
    /\ RelsUnused
    /\ color_map = Unused

NextHooks ==
    \/ \E w \in DOMAIN workers : ListHooks(w)
    \/ \E w \in DOMAIN workers : CreateHook(w)
    \/ \E w \in DOMAIN workers : DeleteHook(w)
    \/ \E w \in DOMAIN workers : UpdateHook(w)
    \/ \E w \in DOMAIN workers : SleepHooks(w)

SpecHooks == InitHooks /\ [][NextHooks]_vars

\* what worker w does next in setup_hooks
WorkerStep(w) ==
    /\ w \in DOMAIN workers
    /\ \/ ListHooks(w)
       \/ CreateHook(w)
       \/ DeleteHook(w)
       \/ UpdateHook(w)
       \/ SleepHooks(w)

\* SpecHooksFair: every worker is a process of its own with a thread in
\* setup_hooks, the registry answers every request and time.sleep returns:
\* a worker that can take a step takes it
SpecHooksFair ==
    /\ InitHooks
    /\ [][NextHooks]_vars
    /\ \A w \in 1..MaxWorkers : WF_vars(WorkerStep(w))

(***************************************************************************)
(* The transports: BotSocket.run, src/botsocket.py:90-184, and             *)
(* BotWebhook.process_incoming_message, src/convert_bot.py:245-281.        *)
(* The message callback is process_message_sync (PPTBot.__init__), a       *)
(* function that blocks the thread it is called in until it returns.       *)
(***************************************************************************)
\* the threads of ThreadPoolExecutor() of line 183: min(32, cpu_count + 4),
\* for one CPU
PoolSize == 5

\* the transport object: BotSocket or BotWebhook with its _allowed_emails
Transport(kind, allowed_emails) == [kind |-> kind, allowed_emails |-> allowed_emails]

\* the people who write to the bot: the bot itself and two others
OwnEmail == "bot@example.com"
Emails == {OwnEmail, "alice@example.com", "bob@example.com"}

\* a message on the websocket, or the event of a webhook request: the event
\* type, the verb of the activity and the email address of its sender
Message(eventType, verb, email) ==
    [eventType |-> eventType, verb |-> verb, email |-> email]

\* an accepted message: the message, where its processing is, how often its
\* details were requested, whether they were found, and how often the
\* callback was called for it
Task(msg, pos) ==
    [message |-> msg, pos |-> pos, fetches |-> 0, found |-> FALSE, calls |-> 0]

\* the threads of the pool that run a task
Busy == Cardinality({i \in 1..Len(tasks) : tasks[i].pos \in {"details", "callback"}})

\* botsocket.py 176-178: the event loop runs as_run, the websocket gives the
\* next message, and a task is created for it
SocketReceive(msg) ==
    /\ transport.kind = "socket"
    /\ wire > 0
    /\ loop = 0
    /\ wire' = wire - 1
    /\ tasks' = Append(tasks, Task(msg, "created"))
    /\ UNCHANGED <<transport, loop>>
    /\ UNCHANGED <<convertVars, color_map, themeVars, driverVars, relsVars, botVars, hookVars>>

\* process, had it no lines 109-111
PassedOverNotOwn(msg, allowed_emails) ==
    \/ msg.eventType # "conversation.activity"
    \/ msg.verb \notin {"post", "share"}
    \/ (allowed_emails # {} /\ msg.email \notin allowed_emails)

\* botsocket.py 103-114: the message is passed over
PassedOver(msg, allowed_emails) ==
    \/ msg.eventType # "conversation.activity"
    \/ msg.verb \notin {"post", "share"}
    \/ msg.email = OwnEmail
    \/ (allowed_emails # {} /\ msg.email \notin allowed_emails)

\* botsocket.py 98-117: the event loop runs the task up to its first await:
\* the message is passed over (lines 104, 107, 111, 114), or its details
\* are requested
ProcessStart(i) ==
    /\ transport.kind = "socket"
    /\ loop = 0
    /\ tasks[i].pos = "created"
    /\ tasks' = IF PassedOver(tasks[i].message, transport.allowed_emails)
                THEN [tasks EXCEPT ![i].pos = "done"]
                ELSE [tasks EXCEPT ![i].pos = "details",
                                   ![i].fetches = @ + 1]
    /\ UNCHANGED <<transport, wire, loop>>
    /\ UNCHANGED <<convertVars, color_map, themeVars, driverVars, relsVars, botVars, hookVars>>

\* botsocket.py 117-121: the details have arrived and the event loop runs
\* the task again: it returns for no message, or calls the callback, which
\* runs in the task, on the event loop
ProcessCallback(i) ==
    /\ transport.kind = "socket"
    /\ loop = 0
    /\ tasks[i].pos = "details"
    /\ \E found \in BOOLEAN :
        IF found
        THEN /\ tasks' = [tasks EXCEPT ![i].pos = "callback", ![i].found = TRUE,
                                       ![i].calls = @ + 1]
             /\ loop' = i
        ELSE tasks' = [tasks EXCEPT ![i].pos = "done"] /\ loop' = loop
    /\ UNCHANGED <<transport, wire>>
    /\ UNCHANGED <<convertVars, color_map, themeVars, driverVars, relsVars, botVars, hookVars>>

\* convert_bot.py 261-271: Flask calls process_incoming_message for a
\* request: the message is passed over when the bot wrote it (line 265);
\* for a sender who is not allowed line 268 writes to the log; the
\* processing is submitted to the pool
WebhookReceive(msg) ==
    /\ transport.kind = "webhook"
    /\ wire > 0
    /\ wire' = wire - 1
    /\ tasks' = Append(tasks, Task(msg, IF msg.email = OwnEmail THEN "done"
                                        ELSE "created"))
    /\ UNCHANGED <<transport, loop>>
    /\ UNCHANGED <<convertVars, color_map, themeVars, driverVars, relsVars, botVars, hookVars>>

\* convert_bot.py 273-280: a thread of the pool takes the submitted call
\* that waits longest and requests the details of the message
PoolStart(i) ==
    /\ transport.kind = "webhook"
    /\ tasks[i].pos = "created"
    /\ \A j \in 1..(i - 1) : tasks[j].pos # "created"
    /\ Busy < PoolSize
    /\ tasks' = [tasks EXCEPT ![i].pos = "details", ![i].fetches = @ + 1]
    /\ UNCHANGED <<transport, wire, loop>>
    /\ UNCHANGED <<convertVars, color_map, themeVars, driverVars, relsVars, botVars, hookVars>>

\* convert_bot.py 280-281: the details have arrived and the thread calls
\* the callback, or messages.details raised and the call of the thread ends
PoolCallback(i) ==
    /\ transport.kind = "webhook"
    /\ tasks[i].pos = "details"
    /\ \E found \in BOOLEAN :
        tasks' = IF found
                 THEN [tasks EXCEPT ![i].pos = "callback", ![i].found = TRUE,
                                    ![i].calls = @ + 1]
                 ELSE [tasks EXCEPT ![i].pos = "done"]
    /\ UNCHANGED <<transport, wire, loop>>
    /\ UNCHANGED <<convertVars, color_map, themeVars, driverVars, relsVars, botVars, hookVars>>

\* process_message_sync returns: the event loop, or the thread of the pool,
\* is free again
CallbackReturn(i) ==
    /\ tasks[i].pos = "callback"
    /\ tasks' = [tasks EXCEPT ![i].pos = "done"]
    /\ loop' = 0
    /\ UNCHANGED <<transport, wire>>
    /\ UNCHANGED <<convertVars, color_map, themeVars, driverVars, relsVars, botVars, hookVars>>

(***************************************************************************)
(* SpecTransport: one transport and the messages sent to the bot.          *)
(***************************************************************************)
\* the messages sent to the bot.  A webhook is registered for created
\* messages; its events are given the event type and verb of a posted one
SocketMessages ==
    {Message("conversation.activity", v, e) : v \in {"post", "share"}, e \in Emails}
    \cup {Message("conversation.activity", "acknowledge", "alice@example.com"),
          Message("conversation.activity", "acknowledge", "bob@example.com"),
          Message("status.start_typing", "none", "bob@example.com")}
WebhookMessages == {Message("conversation.activity", "post", e) : e \in Emails}

InitTransport ==
    /\ \E k \in {"socket", "webhook"}, allowed \in {{}, {"alice@example.com"}} :
            transport = Transport(k, allowed)
    /\ wire \in 0..MaxMessages
    /\ tasks = <<>>
    /\ loop = 0
    /\ ConvertUnused /\ ThemeUnused /\ DriverUnused /\ BotUnused /\ HookUnused
    /\ RelsUnused
    /\ color_map = Unused

NextTransport ==
    \/ \E msg \in SocketMessages : SocketReceive(msg)
    \/ \E i \in 1..Len(tasks) : ProcessStart(i)
    \/ \E i \in 1..Len(tasks) : ProcessCallback(i)
    \/ \E msg \in WebhookMessages : WebhookReceive(msg)
    \/ \E i \in 1..Len(tasks) : PoolStart(i)
    \/ \E i \in 1..Len(tasks) : PoolCallback(i)
    \/ \E i \in 1..Len(tasks) : CallbackReturn(i)

SpecTransport == InitTransport /\ [][NextTransport]_vars

(***************************************************************************)
(* Claims about convert, checked under SpecConvert.                        *)
(***************************************************************************)
\* convert has returned
Converted == results # <<>> /\ ~results[1].raised

\* the bytes the first call of convert returned
Out == results[1].bytes

\* the elements of a part that are in namespace ns and named tag
ElementsOf(nodes, ns, tag) ==
    {i \in 1..Len(nodes) : nodes[i].ns = ns /\ nodes[i].tag = tag}

ChildrenOf(nodes, i) == {j \in 1..Len(nodes) : Parent(nodes, j) = i}

SlotNames == CanonicalSlots \cup {"bg1", "tx1", "bg2", "tx2"}

HasColourForAllSlots(cm) ==
    \A s \in CanonicalSlots : s \in DOMAIN cm /\ cm[s] # None

\* the scheme colour references of a part, in the namespace ns, whose val is
\* no slot name and no legacy alias
OddRefs(nodes, ns) ==
    {i \in ElementsOf(nodes, ns, "schemeClr") : nodes[i].val \notin SlotNames}

C4_Idempotent ==
    Len(results) = 2
        => ~results[2].raised /\ results[2].bytes = results[1].bytes

\* C4's case: the first pass synthesized a fill and rewrote the slide, and
\* the second pass has run
C4_Witness ==
    /\ Len(results) = 2
    /\ results[1].exit = 132
    /\ Len(Out.nodes) > Len(content.nodes)
    /\ ElementsOf(Out.nodes, DrawingNs, "schemeClr") # {}

FillTags == {"solidFill", "gradFill"}

\* the run properties of a part that have no fill child and whose parent
\* has a text child
PlainTextRuns(nodes) ==
    {i \in ElementsOf(nodes, DrawingNs, "rPr") :
        /\ \A j \in ChildrenOf(nodes, i) :
                ~(nodes[j].ns = DrawingNs /\ nodes[j].tag \in FillTags)
        /\ \E j \in ElementsOf(nodes, DrawingNs, "t") :
                Parent(nodes, j) = Parent(nodes, i)}

\* element i of the part has a solidFill child with a srgbClr child of val rgb
HasFixedFill(nodes, i, rgb) ==
    \E f \in ElementsOf(nodes, DrawingNs, "solidFill") :
        /\ Parent(nodes, f) = i
        /\ \E c \in ElementsOf(nodes, DrawingNs, "srgbClr") :
                Parent(nodes, c) = f /\ nodes[c].val = rgb

\* C5 as claimed: every run-properties node without fill whose run has a
\* text child has, after convert, a fixed-colour fill of the colour of dk1
C5_DefaultFillIsDk1 ==
    (Converted /\ DictGet(color_map, "dk1", None) # None)
        => LET before == ElementsOf(content.nodes, DrawingNs, "rPr")
               after  == ElementsOf(Out.nodes, DrawingNs, "rPr")
           IN  /\ Cardinality(after) = Cardinality(before)
               /\ \A k \in 1..Cardinality(before) :
                    Nth(before, k) \in PlainTextRuns(content.nodes)
                        => HasFixedFill(Out.nodes, Nth(after, k), color_map["dk1"])

AliasPairs ==
    {<<"bg1", "lt1">>, <<"tx1", "dk1">>, <<"bg2", "lt2">>, <<"tx2", "dk2">>}

\* C6: a reference with a legacy alias and a reference with its canonical
\* slot are resolved alike, to the same colour, whatever the map holds
C6_AliasAsCanonical ==
    (Converted /\ Len(Out.nodes) = Len(content.nodes))
        => \A i \in 1..Len(content.nodes) :
            (/\ content.nodes[i].tag = "schemeClr"
             /\ content.nodes[i].val \in LegacyNames)
                => \A j \in 1..Len(content.nodes) :
                    (/\ content.nodes[j].tag = "schemeClr"
                     /\ content.nodes[i].ns = content.nodes[j].ns
                     /\ <<content.nodes[i].val, content.nodes[j].val>> \in AliasPairs)
                        => /\ Out.nodes[i].tag = Out.nodes[j].tag
                           /\ Out.nodes[i].tag = "srgbClr"
                                => Out.nodes[i].val = Out.nodes[j].val

\* C6's case: the map has an entry under bg1, and a reference to bg1 and one
\* to lt1 have both become the colour of lt1
C6_Witness ==
    /\ Converted /\ "bg1" \in DOMAIN color_map
    /\ Len(Out.nodes) = Len(content.nodes)
    /\ \E i, j \in 1..Len(content.nodes) :
        /\ content.nodes[i].val = "bg1" /\ content.nodes[j].val = "lt1"
        /\ Out.nodes[i].tag = "srgbClr" /\ Out.nodes[j].tag = "srgbClr"
        /\ Out.nodes[i].val = Palette["lt1"] /\ Out.nodes[j].val = Palette["lt1"]

\* C10 as claimed: a part without drawing-namespace content is returned as
\* it is, and a part with drawing-namespace elements does not leave convert
\* by the early return of line 91
C10_FastPathIffNoDrawing ==
    Converted
        => IF \A i \in 1..Len(content.nodes) : content.nodes[i].ns # DrawingNs
           THEN Out = content
           ELSE results[1].exit # 91

\* a colour map gives no colour for the val of a reference: the slot the val
\* is remapped to is no key of the map, or its value is None
SlotAbsent(val, cm) == DictGet(cm, DictGet(PRE_MAP, val, val), None) = None

\* the references the loop of line 115 goes through: the schemeClr elements
\* of the namespace the root binds to a
RefsOfInput == ElementsOf(content.nodes, content.rootA, "schemeClr")

ChildTags(nodes, i) ==
    LET cs == ChildrenOf(nodes, i)
    IN  [k \in 1..Cardinality(cs) |->
            <<nodes[Nth(cs, k)].ns, nodes[Nth(cs, k)].tag>>]

\* element i of a part has a direct fill child of any kind
HasFill(nodes, i) ==
    \E j \in ChildrenOf(nodes, i) :
        nodes[j].ns = DrawingNs /\ nodes[j].tag \in FillTags

\* C20 as claimed: a run-properties node that carries a fill of any kind has
\* after convert the child elements it had before
C20_FillKeptAsItIs ==
    (Converted /\ content.rootA = DrawingNs)
        => LET before == ElementsOf(content.nodes, DrawingNs, "rPr")
               after  == ElementsOf(Out.nodes, DrawingNs, "rPr")
           IN  /\ Cardinality(after) = Cardinality(before)
               /\ \A k \in 1..Cardinality(before) :
                    HasFill(content.nodes, Nth(before, k))
                        => ChildTags(Out.nodes, Nth(after, k))
                            = ChildTags(content.nodes, Nth(before, k))

\* element i of a part has a text sibling: its parent has a t child
HasTextSibling(nodes, i) ==
    \E j \in ElementsOf(nodes, DrawingNs, "t") :
        Parent(nodes, j) = Parent(nodes, i)

\* C21 as claimed: a run-properties node without fill has a fill after
\* convert exactly when its run has a text child
C21_FillOnlyForTextRuns ==
    Converted
        => LET before == ElementsOf(content.nodes, DrawingNs, "rPr")
               after  == ElementsOf(Out.nodes, DrawingNs, "rPr")
           IN  /\ Cardinality(after) = Cardinality(before)
               /\ \A k \in 1..Cardinality(before) :
                    ~HasFill(content.nodes, Nth(before, k))
                        => (HasFill(Out.nodes, Nth(after, k))
                                <=> HasTextSibling(content.nodes, Nth(before, k)))

(***************************************************************************)
(* Claims about the bytes convert writes, checked under SpecText.          *)
(***************************************************************************)
\* convert left by line 132 with bytes it serialized
Reserialized ==
    results # <<>> /\ ~results[1].raised /\ results[1].exit = 132

\* all the bytes of a part that the model keeps, in order
AllBytes(bytes) == bytes.head \o bytes.text

\* every line feed has exactly one carriage return immediately before it
OneCrBeforeEachLf(bytes) ==
    \A i \in 1..Len(bytes) :
        bytes[i] = LF
            => /\ i > 1 /\ bytes[i - 1] = CR
               /\ (i > 2 => bytes[i - 2] # CR)

\* C25: a slide part that convert re-serializes starts with an XML
\* declaration, and in its bytes every line feed is immediately preceded
\* by exactly one carriage return
C25_DeclarationAndCrLf ==
    Reserialized
        => /\ Out.head # <<>> /\ Head(Out.head) = XmlDecl
           /\ OneCrBeforeEachLf(AllBytes(Out))

\* a slide whose character data had a CR LF pair, a lone carriage return, a
\* reference to one and a line feed among them is re-serialized
C25_Witness ==
    /\ Reserialized
    /\ \E i \in 1..Len(content.text) : content.text[i] = CRRef
    /\ \E i \in 1..Len(content.text) : content.text[i] = LF
    /\ \E i \in 1..Len(content.text) : content.text[i] = CR
    /\ \E i \in 1..Len(Out.text) : Out.text[i] = LF

(***************************************************************************)
(* Claims about read_color_map, checked under SpecTheme.                   *)
(***************************************************************************)
\* the colour scheme of the theme has exactly the 12 slots, each once, each
\* with a fixed colour as its child
HasTwelveFixedSlots(bytes) ==
    /\ bytes.wellformed /\ bytes.kind = "theme" /\ bytes.clrScheme.found
    /\ LET slots == bytes.clrScheme.slots
       IN  /\ Len(slots) = 12
           /\ {slots[i].tag : i \in 1..12} = CanonicalSlots
           /\ \A i \in 1..12 :
                slots[i].child.tag = "srgbClr"

\* C7: for a theme whose scheme has the 12 slots with a fixed colour each,
\* read_color_map returns a map of exactly the 12 slot names, each mapped
\* to the val of the slot's fixed colour
C7_TwelveEntries ==
    (theme # <<>> /\ HasTwelveFixedSlots(theme_file))
        => /\ ~theme[1].raised
           /\ DOMAIN theme[1].rgb_map = CanonicalSlots
           /\ Cardinality(DOMAIN theme[1].rgb_map) = 12
           /\ \A i \in 1..12 :
                LET slot == theme_file.clrScheme.slots[i]
                IN  theme[1].rgb_map[slot.tag] = slot.child.val

\* C7's case: a theme with dk1 as srgbClr 112233 and eleven more fixed
\* colours has been read
C7_Witness ==
    /\ theme # <<>> /\ HasTwelveFixedSlots(theme_file)
    /\ theme_file.clrScheme.slots[1] = Slot("dk1", Colour("srgbClr", "112233", None))
    /\ theme[1].rgb_map["dk1"] = "112233"

(***************************************************************************)
(* Claims about convert_pptx_to_rgb, checked under Spec.                   *)
(***************************************************************************)
\* convert_pptx_to_rgb has returned
Done == pc = "done"

\* the part of the input package that is read under the name file
InputPart(file) == ZipOpen(input_file, file).data

\* C2: the package written has the part names of the input, in the order of
\* the input, each as often as the input has it; while it is written, its
\* names are the first names of the input
C2_SamePartNames ==
    /\ Done => namelist(output_file) = namelist(input_file)
    /\ output_file.exists
        => /\ Len(output_file.entries) <= Len(input_file.entries)
           /\ \A i \in 1..Len(output_file.entries) :
                output_file.entries[i].file = input_file.entries[i].file

\* C2's case: a package of three parts, one of them twice and one of them a
\* slide the conversion has changed, has been written
C2_Witness ==
    /\ Done /\ Len(output_file.entries) = 3
    /\ \E i, j \in 1..3 :
        i # j /\ input_file.entries[i].file = input_file.entries[j].file
    /\ \E i \in 1..3 : output_file.entries[i].data # input_file.entries[i].data

\* C3 as claimed: every part of the output whose name is not exactly
\* ppt/slides/slide<digits>.xml has the bytes of the input's part of that name
C3_OtherPartsIdentical ==
    Done => \A i \in 1..Len(output_file.entries) :
                LET file == output_file.entries[i].file
                IN  ~SlideNameExact(file)
                        => output_file.entries[i].data = InputPart(file)

\* C4 for packages: the package written for the output of a conversion has
\* the parts of that output, and the second conversion raises nothing
C4_PackageIdempotent ==
    input_file.converted
        => /\ pc # "raised"
           /\ Done => output_file.entries = input_file.entries

\* the theme the conversion reads: the part the presentation relationships
\* name
ThemeOfInput == ZipOpen(input_file, theme_name(rel))

ThemeIsRead ==
    /\ "theme" \in DOMAIN rel
    /\ ThemeOfInput.found
    /\ ThemeOfInput.data.wellformed
    /\ ThemeOfInput.data.kind = "theme"
    /\ ThemeOfInput.data.clrScheme.found

ThemeSlots == ThemeOfInput.data.clrScheme.slots

\* C8 as claimed: when a slot of the theme is a system colour, every
\* reference of a slide to that slot, by its name or by its legacy alias, is
\* written as a fixed colour whose val is the last colour of the slot
C8_SystemColourAsLastClr ==
    (Done /\ ThemeIsRead)
        => \A s \in 1..Len(ThemeSlots) : \A i \in 1..Len(output_file.entries) :
            LET file == output_file.entries[i].file
                in   == InputPart(file)
                out  == output_file.entries[i].data
            IN  (/\ ThemeSlots[s].child.tag = "sysClr"
                 /\ SlideNameExact(file)
                 /\ in.rootA = DrawingNs
                 /\ Len(out.nodes) = Len(in.nodes))
                    => \A k \in ElementsOf(in.nodes, DrawingNs, "schemeClr") :
                        DictGet(PRE_MAP, in.nodes[k].val, in.nodes[k].val) = ThemeSlots[s].tag
                            => /\ out.nodes[k].tag = "srgbClr"
                               /\ out.nodes[k].val = ThemeSlots[s].child.lastClr

\* C9 as claimed: when a slot of the theme has a child that is neither a
\* fixed colour nor a system colour, the conversion raises and no output
\* package is written
C9_OddColourKindAborts ==
    (/\ pc \notin {"open", "rel", "theme"}
     /\ ThemeIsRead
     /\ \E s \in 1..Len(ThemeSlots) :
            ThemeSlots[s].child.tag \notin {"srgbClr", "sysClr", None})
        => pc = "raised" /\ ~output_file.exists

\* the colour map of the theme the conversion reads
ThemeMap == RgbMap(ThemeSlots)

NoThemeRel ==
    /\ input_file.readable
    /\ ZipOpen(input_file, FILE).found
    /\ ZipOpen(input_file, FILE).data.wellformed
    /\ \A i \in 1..Len(ZipOpen(input_file, FILE).data.children) :
            RelVar(ZipOpen(input_file, FILE).data.children[i]) # "theme"

\* C12: when the archive cannot be opened, when it has no presentation
\* relationships, and when these name no theme, convert_pptx_to_rgb gets no
\* further than the statement that raises, raises there (BadZipFile,
\* KeyError, AttributeError), and writes no output
C12_NoPackageNoThemeRaises ==
    /\ ~input_file.readable
        => /\ pc \in {"open", "raised"}
           /\ pc = "raised" => error = "BadZipFile"
           /\ ~output_file.exists
    /\ (input_file.readable /\ ~ZipOpen(input_file, FILE).found)
        => /\ pc \in {"open", "rel", "raised"}
           /\ pc = "raised" => error = "KeyError"
           /\ ~output_file.exists
    /\ NoThemeRel
        => /\ pc \in {"open", "rel", "theme", "raised"}
           /\ pc = "raised" => error = "AttributeError"
           /\ ~output_file.exists

\* C12's case: a package of three parts with a theme and a slide, whose
\* relationships name no theme: the conversion has raised
C12_Witness ==
    /\ pc = "raised" /\ error = "AttributeError" /\ NoThemeRel
    /\ Len(input_file.entries) = 3
    /\ \E i \in 1..3 : input_file.entries[i].file = ThemeName(<<"1">>)
    /\ \E i \in 1..3 : SlideNameExact(input_file.entries[i].file)

\* C14: while convert_pptx_to_rgb goes through the parts and writes the
\* output the colour map is the map read from the theme, and no step of it
\* changes the input package
C14_InputsUnchanged ==
    [][/\ pc \in {"parts", "write"} => color_map' = color_map
       /\ pc # "done" => input_file' = input_file]_vars

\* C14's case: two slides of a deck have been converted, each to other
\* bytes, and the input package holds the bytes it held
C14_Witness ==
    /\ Done /\ ~input_file.converted
    /\ \E i, j \in 1..Len(output_file.entries) :
        /\ input_file.entries[i].file # input_file.entries[j].file
        /\ SlideNameExact(input_file.entries[i].file)
        /\ SlideNameExact(input_file.entries[j].file)
        /\ output_file.entries[i].data # input_file.entries[i].data
        /\ output_file.entries[j].data # input_file.entries[j].data
        /\ input_file.entries[i].data \in {RefSlide("accent2"), RefSlide("tx1"), TextSlide}
        /\ input_file.entries[j].data \in {RefSlide("accent2"), RefSlide("tx1"), TextSlide}

\* the presentation relationships as the conversion parses them
RelChildren ==
    LET opened == ZipOpen(input_file, FILE)
    IN  IF input_file.readable /\ opened.found /\ opened.data.wellformed
        THEN opened.data.children ELSE <<>>

\* the relationships name a theme, and the package has no part of the name
\* made of it at line 145
ThemeTargetMissing ==
    /\ \E i \in 1..Len(RelChildren) : RelVar(RelChildren[i]) = "theme"
    /\ LET targets == RelTargets(RelChildren, "theme")
       IN  ~ZipOpen(input_file,
                    theme_name([theme |-> RelAttribute(targets)])).found

\* a relationship of another type has a target that is no part of the package
OtherTargetMissing ==
    \E i \in 1..Len(RelChildren) :
        /\ RelVar(RelChildren[i]) # "theme"
        /\ ~ZipOpen(input_file, <<"ppt/">> \o RelChildren[i].Target).found

\* C22 as claimed: convert_pptx_to_rgb does not fail for a relationship whose
\* target is missing, the theme relationship included: the KeyError of a part
\* not found is raised for the relationships file only
C22_MissingTargetSkipped ==
    (pc = "raised" /\ error = "KeyError") => ~ZipOpen(input_file, FILE).found

\* C22 as amended: the KeyError of a part not found is raised for the
\* relationships file and for the target of the theme relationship, never
\* for the target of another relationship; and with the target of the theme
\* relationship missing, convert_pptx_to_rgb gets no further than line 146,
\* raises there, and writes no output
C22_MissingTargetAsBuilt ==
    /\ (pc = "raised" /\ error = "KeyError")
        => (~ZipOpen(input_file, FILE).found \/ ThemeTargetMissing)
    /\ ThemeTargetMissing
        => /\ pc \in {"open", "rel", "theme", "raised"}
           /\ pc = "raised" => error = "KeyError"
           /\ ~output_file.exists

\* C22's case: the relationships name slide1 and theme1, the package has
\* theme1 and no slide1, and the conversion has completed
C22_Witness ==
    /\ Done /\ ~input_file.converted /\ OtherTargetMissing
    /\ ~ThemeTargetMissing
    /\ output_file.exists

(***************************************************************************)
(* Claims about the bot, checked under SpecBot.                            *)
(***************************************************************************)
\* the attachments convert_pptx_to_rgb was called for
Called == {calls[k] : k \in 1..Len(calls)}

\* the messages created about attachment i
SentFor(i) == {k \in 1..Len(sent) : sent[k].file = i}

\* the loop of line 101 is done with attachment i
DoneWith(i) == file_idx > i \/ bpc = "return"

\* C15: when convert_pptx_to_rgb raises for an attachment, the exception
\* does not leave process_message_sync, a message about the failure is
\* created, no message to the room carries a file for that attachment, and
\* the loop goes on to the next attachment, or returns after the last
C15_FailureCaught ==
    \A i \in 1..Len(message.files) :
        (i \in Called /\ ~message.files[i].sound)
            => /\ bpc # "raised in process_message_sync" \/ file_idx # i
               /\ \E k \in SentFor(i) :
                    sent[k].to = OperatorEmail /\ sent[k].text = "conversion failed"
               /\ \A k \in SentFor(i) : sent[k].to = "room" => sent[k].files = <<>>
               /\ \A k \in SentFor(i) : sent[k].files # <<rgb_path(message.files[i].file_name)>>
               /\ DoneWith(i)

\* C15's case: the conversion of the first attachment raised and the second
\* attachment has been converted and returned
C15_Witness ==
    /\ bpc = "return" /\ Len(message.files) = 2
    /\ ~message.files[1].sound /\ message.files[2].sound
    /\ Called = {1, 2}
    /\ \E k \in SentFor(2) : sent[k].to = "room" /\ sent[k].files # <<>>

\* get_file is done for attachment i: it yielded, and the body of the with
\* statement has run or is about to
GetFileDone(i) ==
    \/ file_idx > i
    \/ bpc = "return"
    \/ file_idx = i /\ bpc \in {"body", "convert"}

\* C17 as claimed: for every attachment, whatever the server answers,
\* get_file raises nothing, issues at most 60 requests, yields once, and
\* what it yields is the first response that is not 423, or None after 60
\* responses 423
C17_YieldsOnce ==
    /\ bpc # "raised in get_file"
    /\ tries <= Tries
    /\ \A i \in 1..Len(message.files) :
        /\ yields[i] <= 1
        /\ GetFileDone(i) => yields[i] = 1
    /\ bpc = "body"
        => LET att == message.files[file_idx]
           IN  IF att.locked >= Tries
               THEN response.none /\ tries = Tries
               ELSE /\ ~response.none
                    /\ tries = att.locked + 1
                    /\ response = ServerResponse(att, att.locked + 1)

\* the extension of a file name is .pptx in any case of the letters
HasPptxExtension(file_name) ==
    Len(file_name) > 1 /\ file_name[Len(file_name)] \in {".pptx", ".PPTX", ".Pptx"}

\* attachment i was downloaded with status 200 and a file name
Downloaded(i) ==
    /\ DoneWith(i) \/ (file_idx = i /\ bpc = "convert")
    /\ message.files[i].locked < Tries
    /\ message.files[i].status = 200
    /\ message.files[i].header
    /\ \A j \in 1..i : message.files[j].locked > 0 => message.files[j].lock_header
    /\ bpc \notin {"raised in get_file", "raised in process_message_sync"}

\* C19: convert_pptx_to_rgb is called only for attachments whose extension
\* is .pptx, in any case; a downloaded attachment with that extension is
\* converted; for a downloaded attachment with another extension the hint
\* is created, nothing is converted, no message carries a file, and the
\* loop goes on
C19_OnlyPptxConverted ==
    \A i \in 1..Len(message.files) :
        /\ i \in Called => HasPptxExtension(message.files[i].file_name)
        /\ (Downloaded(i) /\ DoneWith(i) /\ HasPptxExtension(message.files[i].file_name))
            => i \in Called
        /\ (Downloaded(i) /\ ~HasPptxExtension(message.files[i].file_name))
            => /\ i \notin Called
               /\ DoneWith(i)
               /\ \E k \in SentFor(i) : sent[k].text = "Send me a PPTX (and not"
               /\ \A k \in SentFor(i) : sent[k].files = <<>>

\* C19's case: a message with notes.txt and DECK.PPTX: the hint was created
\* for the first, the second was converted
C19_Witness ==
    /\ bpc = "return" /\ Len(message.files) = 2
    /\ message.files[1].file_name = <<"notes", ".txt">>
    /\ message.files[2].file_name = <<"DECK", ".PPTX">>
    /\ Called = {2}
    /\ \E k \in SentFor(1) : sent[k].text = "Send me a PPTX (and not"

(***************************************************************************)
(* Claims about setup_hooks, checked under SpecHooks.                      *)
(***************************************************************************)
\* every worker has left setup_hooks
AllReturned == \A w \in DOMAIN workers : workers[w].pc \in {"done", "raised"}

CallbackRuns == \E i \in 1..Len(tasks) : tasks[i].pos = "callback"

\* C16 as claimed: while the callback of a message runs, the transport can
\* accept a message that has arrived, and can start the processing of a
\* message it has accepted
C16_AcceptsWhileCallbackRuns ==
    /\ (CallbackRuns /\ wire > 0)
        => ENABLED (\/ \E msg \in SocketMessages : SocketReceive(msg)
                    \/ \E msg \in WebhookMessages : WebhookReceive(msg))
    /\ (CallbackRuns /\ \E j \in 1..Len(tasks) : tasks[j].pos = "created")
        => ENABLED (\E j \in 1..Len(tasks) : ProcessStart(j) \/ PoolStart(j))

(***************************************************************************)
(* Claims about the relationship parsers, checked under SpecRels.          *)
(***************************************************************************)
\* what Rel.from_tree and the PresentationRel of the conversion returned,
\* once they have run without exception
FromTreeDone == rels.from_tree.run /\ ~rels.from_tree.result.raised
PresentationRelDone == rels.PresentationRel.run /\ ~rels.PresentationRel.result.raised
Init_ == rels.from_tree.result.init
Dict_ == rels.PresentationRel.result.dict

\* a list of strings is in lexicographic order
IsLexSorted(list) ==
    \A i \in 1..(Len(list) - 1) : ~StrLess(list[i + 1], list[i])

\* a list of slide targets is in the order of the slide numbers, and in
\* lexicographic order among the targets of one number
IsSlideSorted(list) ==
    \A i \in 1..(Len(list) - 1) :
        LET a == int(SlideDigits(list[i]))
            b == int(SlideDigits(list[i + 1]))
        IN  a < b \/ (a = b /\ ~StrLess(list[i + 1], list[i]))

\* two lists have the same elements, each as often
IsPermutation(a, b) ==
    /\ Len(a) = Len(b)
    /\ \A i \in 1..Len(a) :
        Cardinality({j \in 1..Len(a) : a[j] = a[i]})
            = Cardinality({j \in 1..Len(b) : b[j] = a[i]})

\* the type of the relationships part that a field of from_tree's result is
\* made of
TypeOf(k) == CHOOSE var \in RelVars(rels_tree.children) : underscore[var] = k

\* C23 as claimed: every list of targets a parser returns is in
\* lexicographic order, the slide list of the presentation included
C23_ListsLexicographic ==
    /\ FromTreeDone
        => \A k \in DOMAIN Init_ : Init_[k].list => IsLexSorted(Init_[k].value)
    /\ PresentationRelDone
        => \A k \in DOMAIN Dict_ : Dict_[k].list => IsLexSorted(Dict_[k].value)

\* C23 as amended: the conversion's PresentationRel gives, for a type with
\* more than one target, the targets in lexicographic order; Rel.from_tree
\* gives, for a field that is a list, the targets of the type in
\* lexicographic order, but for the slide list of PresentationRel in the
\* order of the slide numbers; in both cases the list has the targets of
\* the file, whatever their order there
C23_ListsSortedAsBuilt ==
    /\ FromTreeDone
        => \A k \in DOMAIN Init_ :
            Init_[k].list
                => /\ IsPermutation(Init_[k].value,
                                    StrippedTargets(rels_tree.children, TypeOf(k)))
                   /\ IF rels_tree.cls = "PresentationRel" /\ k = "slide"
                      THEN IsSlideSorted(Init_[k].value)
                      ELSE IsLexSorted(Init_[k].value)
    /\ PresentationRelDone
        => \A var \in DOMAIN Dict_ :
            LET targets == RelTargets(rels_tree.children, var)
            IN  /\ Dict_[var].list <=> Len(targets) # 1
                /\ Dict_[var].list
                    => /\ IsPermutation(Dict_[var].value, targets)
                       /\ IsLexSorted(Dict_[var].value)

\* C23's case: the presentation relationships name slide10 before slide2;
\* from_tree gives slide2 before slide10, the conversion's PresentationRel
\* slide10 before slide2
C23_Witness ==
    /\ FromTreeDone /\ PresentationRelDone
    /\ rels_tree.cls = "PresentationRel"
    /\ RelTargets(rels_tree.children, "slide")
        = <<Target("slides/slide", <<"1", "0">>, "xml"),
            Target("slides/slide", <<"2">>, "xml")>>
    /\ Init_["slide"].value
        = <<Target("slides/slide", <<"2">>, "xml"),
            Target("slides/slide", <<"1", "0">>, "xml")>>
    /\ Dict_["slide"].value
        = <<Target("slides/slide", <<"1", "0">>, "xml"),
            Target("slides/slide", <<"2">>, "xml")>>

\* C24 as claimed: what a parser stores for a relationship type are the
\* Target attributes of the entries of that type, each without its leading
\* ../ and otherwise as it is written
C24_TargetsStripped ==
    /\ FromTreeDone
        => \A k \in DOMAIN Init_ :
            LET stripped == StrippedTargets(rels_tree.children, TypeOf(k))
            IN  IF Init_[k].list THEN IsPermutation(Init_[k].value, stripped)
                ELSE Init_[k].value = stripped[1]
    /\ PresentationRelDone
        => \A var \in DOMAIN Dict_ :
            LET stripped == StrippedTargets(rels_tree.children, var)
            IN  IF Dict_[var].list THEN IsPermutation(Dict_[var].value, stripped)
                ELSE Dict_[var].value = stripped[1]

(***************************************************************************)
(* Claims about theme_color_specs, checked under SpecTheme.                *)
(***************************************************************************)
SpecsDone == color_specs # <<>>
Specs == color_specs[1]

\* the theme part has a colour scheme
HasScheme ==
    theme_file.wellformed /\ theme_file.kind = "theme" /\ theme_file.clrScheme.found

\* the value of a slot is a fixed colour or a system colour
FixedOrSystem(slot) == slot.child.tag \in {"srgbClr", "sysClr"}

\* the attribute theme_color_specs reads from the value of a slot
SpecAttribute(slot) ==
    IF slot.child.tag = "srgbClr" THEN slot.child.val ELSE slot.child.lastClr

\* what the claim has in the map for a slot
ClaimedSpec(slot) ==
    IF slot.child.tag = "srgbClr" THEN slot.child.val
    ELSE slot.child.lastClr \o "s"

\* the place of the first slot of a name in the scheme
FirstIndex(slots, name) ==
    CHOOSE i \in 1..Len(slots) :
        slots[i].tag = name /\ \A j \in 1..(i - 1) : slots[j].tag # name

\* C26: theme_color_specs returns, for the slots of the colour scheme in
\* document order, the val attribute as it is for a fixed colour and the
\* lastClr attribute followed by 's' for a system colour (of two slots of
\* one name the later one); when a slot has a value of another kind, or
\* none, it raises and returns no map
C26_ColorSpecs ==
    (SpecsDone /\ HasScheme)
        => LET slots == theme_file.clrScheme.slots
               r     == Specs.r
           IN  /\ (\E i \in 1..Len(slots) : ~FixedOrSystem(slots[i]))
                    => Specs.raised /\ r = <<>>
               /\ (\A i \in 1..Len(slots) :
                        FixedOrSystem(slots[i]) /\ SpecAttribute(slots[i]) # None)
                    => ~Specs.raised
               /\ ~Specs.raised
                    => /\ Specs.scheme_name = theme_file.clrScheme.name
                       /\ {r[k].key : k \in 1..Len(r)}
                            = {slots[i].tag : i \in 1..Len(slots)}
                       /\ \A a, b \in 1..Len(r) :
                            a < b => FirstIndex(slots, r[a].key)
                                        < FirstIndex(slots, r[b].key)
                       /\ \A i \in 1..Len(slots) :
                            (\A j \in (i + 1)..Len(slots) :
                                    slots[j].tag # slots[i].tag)
                                => \E k \in 1..Len(r) :
                                    /\ r[k].key = slots[i].tag
                                    /\ r[k].value = ClaimedSpec(slots[i])

\* theme_color_specs returned the map of a scheme that has a system colour
\* among its fixed colours
C26_Witness ==
    /\ SpecsDone /\ HasScheme /\ ~Specs.raised
    /\ \E i \in 1..Len(theme_file.clrScheme.slots) :
            theme_file.clrScheme.slots[i].child.tag = "sysClr"
    /\ \E k \in 1..Len(Specs.r) : Specs.r[k].value = "000000s"
    /\ \E k \in 1..Len(Specs.r) : Specs.r[k].value = Palette[Specs.r[k].key]

(***************************************************************************)
(* Claims about the output package, checked under Spec.                    *)
(***************************************************************************)
\* C29: when convert_pptx_to_rgb has failed, nothing is at the output path,
\* and the output package exists only once every part of the input has been
\* read and rewritten
C29_NoPartialOutput ==
    /\ pc = "raised" => ~output_file.exists /\ output_file.entries = <<>>
    /\ output_file.exists
        => /\ pc \in {"write", "done"}
           /\ Len(new_file_data) = Len(file_list(input_file))

\* the conversion has failed on a slide after it had read other parts
C29_Witness ==
    /\ pc = "raised" /\ error = "XMLSyntaxError"
    /\ Len(new_file_data) >= 1
    /\ ~output_file.exists

(***************************************************************************)
(* Claims about the messages the transports pass on, checked under         *)
(* SpecTransport.                                                          *)
(***************************************************************************)
\* the sender of the message of task i is not in a list of allowed emails
\* that is not empty
NotAllowed(i) ==
    /\ transport.allowed_emails # {}
    /\ tasks[i].message.email \notin transport.allowed_emails

\* C27 as claimed: with a list of allowed emails that is not empty, a
\* message of a sender who is not in the list is never passed to the
\* callback and its details are never requested, in both transports
C27_AllowedEmailsHonoured ==
    \A i \in 1..Len(tasks) :
        NotAllowed(i) => tasks[i].calls = 0 /\ tasks[i].fetches = 0

\* C27 for the socket transport alone
C27_SocketHonoursAllowedEmails ==
    transport.kind = "socket" => C27_AllowedEmailsHonoured

\* C28: in the socket transport the callback is called at most once for a
\* websocket message, and only for a conversation.activity event with the
\* verb post or share whose sender is not the bot and whose details were
\* found
C28_SocketCallbackOnce ==
    transport.kind = "socket"
        => \A i \in 1..Len(tasks) :
            /\ tasks[i].calls <= 1
            /\ tasks[i].calls = 1
                => /\ tasks[i].message.eventType = "conversation.activity"
                   /\ tasks[i].message.verb \in {"post", "share"}
                   /\ tasks[i].message.email # OwnEmail
                   /\ tasks[i].found

\* the socket has handled a message it passed to the callback, and messages
\* of another event type, of another verb, of the bot itself and one whose
\* details were not found, without calling the callback for them
C28_Witness ==
    /\ transport.kind = "socket"
    /\ \E i \in 1..Len(tasks) : tasks[i].pos = "done" /\ tasks[i].calls = 1
    /\ \E i \in 1..Len(tasks) :
        /\ tasks[i].pos = "done" /\ tasks[i].calls = 0
        /\ tasks[i].message.email = OwnEmail
    /\ \E i \in 1..Len(tasks) :
        /\ tasks[i].pos = "done" /\ tasks[i].calls = 0
        /\ tasks[i].fetches = 1 /\ ~tasks[i].found

(***************************************************************************)
(* Claims about the end of setup_hooks, checked under SpecHooksFair.       *)
(***************************************************************************)
\* setup_hooks has returned in every worker
EveryWorkerDone == \A w \in DOMAIN workers : workers[w].pc = "done"

====
